---- MODULE Spec2Model ----
(***************************************************************************)
(* alix-leds 4.0: the LED mini-scheduler of main(), the four LED automata  *)
(* (manage_net, manage_running, manage_cpu, manage_disk) and the status    *)
(* samplers they use (check_if_status, check_if_list, update_cpu,          *)
(* update_disk).  Durations are microseconds, as in the source.            *)
(***************************************************************************)
EXTENDS Integers, Sequences, FiniteSets, TLC

(***************************************************************************)
(* Program constants                                                       *)
(***************************************************************************)
MAXSLEEP == 1000000
SLEEP_1SEC == 1000000
SLEEP_500M == 500000
MAXSTEPS == 2
MAXIFS == 8
MAXIFL == MAXIFS * 3

LED_UNUSED == 0
LED_NET == 1
LED_RUNNING == 2
LED_CPU == 3
LED_DISK == 4

IF_CHECK_NONE == 0
IF_CHECK_PRESENT == 1
IF_CHECK_LOGICAL == 2
IF_CHECK_PHYSICAL == 4
IF_CHECK_BOTH == 6

ETH_UP == 1
SLAVE_UP == 2
TUN_UP == 4
LINK_CHANGED == 8

\* the two levels setled() is called with: LED_ON and ~LED_ON
ON == "on"
OFF == "off"

(***************************************************************************)
(* Bit fields (the IF_CHECK_* and *_UP flags fit in four bits)             *)
(***************************************************************************)
Bit(a, k) == (a \div (2 ^ k)) % 2

\* a & b
BitAnd(a, b) ==
    Bit(a, 0) * Bit(b, 0) + 2 * (Bit(a, 1) * Bit(b, 1))
    + 4 * (Bit(a, 2) * Bit(b, 2)) + 8 * (Bit(a, 3) * Bit(b, 3))

\* a | b
BitOr(a, b) == a + b - BitAnd(a, b)

(***************************************************************************)
(* unsigned int: 32 bits, held as <<high half, low half>> of 16 bits each  *)
(* so that every intermediate value stays a machine integer of the checker.*)
(* A "wide" value is the same pair with a high half that may exceed 16     *)
(* bits.                                                                   *)
(***************************************************************************)
HALF == 65536

U32(n) == <<n \div HALF, n % HALF>>
U32Max == <<HALF - 1, HALF - 1>>
U32Zero == <<0, 0>>

WLt(a, b) == a[1] < b[1] \/ (a[1] = b[1] /\ a[2] < b[2])

\* a - b for wide a >= b
WSub(a, b) ==
    IF a[2] >= b[2] THEN <<a[1] - b[1], a[2] - b[2]>>
    ELSE <<a[1] - b[1] - 1, a[2] + HALF - b[2]>>

\* unsigned subtraction, modulo 2^32
USub(a, b) == IF WLt(a, b) THEN WSub(<<a[1] + HALF, a[2]>>, b) ELSE WSub(a, b)

\* unsigned multiplication by a small constant, modulo 2^32
UMul(a, k) ==
    LET lo == a[2] * k
    IN  <<(a[1] * k + lo \div HALF) % HALF, lo % HALF>>

\* unsigned addition, modulo 2^32
UAdd(a, b) ==
    LET lo == a[2] + b[2]
    IN  <<(a[1] + b[1] + lo \div HALF) % HALF, lo % HALF>>

\* an unsigned int stored into an int
S32(u) == IF u[1] >= HALF \div 2 THEN (u[1] - HALF) * HALF + u[2] ELSE u[1] * HALF + u[2]

\* wide a <= wide b
WLe(a, b) == ~WLt(b, a)

\* wide product of an unsigned t by a small k
WMul(t, k) == <<t[1] * k + (t[2] * k) \div HALF, (t[2] * k) % HALF>>

\* One step of the division by a divisor d below 2^23, a byte of the
\* dividend at a time: acc is <<quotient so far, remainder so far>>
DivByte(acc, byte, d) ==
    <<<<(acc[1][1] * 256 + (acc[1][2] * 256 + (acc[2] * 256 + byte) \div d) \div HALF) % HALF,
        (acc[1][2] * 256 + (acc[2] * 256 + byte) \div d) % HALF>>,
      (acc[2] * 256 + byte) % d>>

\* x / d for 0 < d < 2^23
UDivSmall(x, d) ==
    DivByte(DivByte(DivByte(DivByte(<<U32Zero, 0>>, x[1] \div 256, d),
                            x[1] % 256, d),
                    x[2] \div 256, d),
            x[2] % 256, d)[1]

\* x / t for t >= 2^23: the quotient is below 2^9 and lies between the two
\* estimates made from the high halves
UDivLarge(x, t) ==
    U32(CHOOSE k \in (x[1] \div (t[1] + 1)) .. ((x[1] + 1) \div t[1]) :
            WLe(WMul(t, k), x) /\ WLt(x, WMul(t, k + 1)))

\* unsigned division x / t (t # 0)
UDiv(x, t) ==
    IF t[1] < 128 THEN UDivSmall(x, t[1] * HALF + t[2]) ELSE UDivLarge(x, t)

(***************************************************************************)
(* State                                                                   *)
(***************************************************************************)
VARIABLES
    leds,        \* leds[0..2]: struct led
    ifs,         \* ifs[1..nbifs]: struct if_status
    ifl,         \* ifl[1..nbifl]: struct if_list (->ifs as an index, ->prev_status)
    fast_mode,   \* 0 or 1, written by sig_handler
    net_sleep,   \* static int of the scheduler loop
    sleep_time,  \* local of the scheduler loop
    led_num,     \* loop index of the dispatch loop
    pc,          \* position of main() in the scheduler loop
    out,         \* level last written to each LED's port ("none" before any write)
    writes,      \* levels written by the latest dispatch iteration, in order
    healthy,     \* history: every check_if_status so far found every interface fully up
    naps,        \* how long each usleep() of the current pass lasted before a
                 \* signal made it return EINTR, in order
    sw,          \* locals of the switch mode: see sw0
    rdok,        \* outcome of the readfile() of the latest step of the loop:
                 \* "ok", "fail", or "none" when the step read nothing
    since,       \* history: the sleep accounted since the latest
                 \* check_if_status(), -1 before the first one
    calls,       \* history: calls[i] counts the manage_*() calls made for
                 \* leds[i] so far, up to MaxCalls
    age          \* history: age[i] is the sleep accounted since manage_net()
                 \* last evaluated the status for leds[i], -1 before the first time

vars == <<leds, ifs, ifl, fast_mode, net_sleep, sleep_time, led_num, pc, out, writes, healthy,
          naps, sw, rdok, since, calls, age>>

LedIds == 0 .. 2

nbifs == Len(ifs)

cpu_status0 == [cpu_total |-> <<U32Zero, U32Zero>>, cpu_idle |-> <<U32Zero, U32Zero>>, cpu_usage |-> 0]

ide_status0 == [count |-> <<U32Zero, U32Zero>>, disk_usage |-> U32Zero]

\* a struct led of the zero-initialised static array leds[3]
led0 ==
    [type |-> LED_UNUSED, state |-> 0, sleep |-> 0,
     intf |-> <<>>, slave |-> <<>>, tun |-> <<>>,
     cpu |-> cpu_status0, ide |-> ide_status0,
     count |-> 0, limit |-> 0, flash |-> 0]

(***************************************************************************)
(* Configuration: the option loop of main() with getif() and newif().      *)
(* A parser state is [leds, ifs, ifl, led, led_mask, fast_mode,            *)
(* switch_mode, err]; led is the selected slot, -1 for NULL; err is set    *)
(* where main() dies.                                                      *)
(***************************************************************************)
parse0 ==
    [leds |-> [i \in LedIds |-> led0], ifs |-> <<>>, ifl |-> <<>>,
     led |-> -1, led_mask |-> 0, fast_mode |-> 0, switch_mode |-> 0, err |-> FALSE]

\* index in tbl of the entry named name, 0 if there is none
IfIndex(tbl, name) ==
    IF \E k \in 1 .. Len(tbl) : tbl[k].name = name
    THEN CHOOSE k \in 1 .. Len(tbl) : tbl[k].name = name
    ELSE 0

\* getif(): [ifs |-> the table afterwards, i |-> the entry's index, 0 for NULL]
getif(tbl, name, check) ==
    LET k == IfIndex(tbl, name)
    IN  IF k # 0
        THEN [ifs |-> [tbl EXCEPT ![k].check = BitOr(@, check)], i |-> k]
        ELSE IF Len(tbl) >= MAXIFS THEN [ifs |-> tbl, i |-> 0]
        ELSE [ifs |-> Append(tbl, [name |-> name, check |-> check, status |-> IF_CHECK_NONE]),
              i |-> Len(tbl) + 1]

\* newif(): [ifs, ifl, l]: l is the new list with the element put before prev,
\* <<>> for NULL
newif(tbl, lst, name, check, prev) ==
    LET g == getif(tbl, name, check)
    IN  IF g.i = 0 \/ Len(lst) >= MAXIFL
        THEN [ifs |-> g.ifs, ifl |-> lst, l |-> <<>>]
        ELSE [ifs |-> g.ifs,
              ifl |-> Append(lst, [ifs |-> g.i, prev_status |-> 0]),
              l |-> <<Len(lst) + 1>> \o prev]

SetType(st, t) ==
    IF st.led = -1 THEN [st EXCEPT !.err = TRUE]
    ELSE IF st.leds[st.led].type # LED_UNUSED /\ st.leds[st.led].type # t
    THEN [st EXCEPT !.err = TRUE]
    ELSE [st EXCEPT !.leds[st.led].type = t]

AddIf(st, role, name, check) ==
    LET s1 == SetType(st, LED_NET)
    IN  IF s1.err THEN s1
        ELSE LET n == newif(s1.ifs, s1.ifl, name, check, s1.leds[s1.led][role])
             IN  IF n.l = <<>> THEN [s1 EXCEPT !.err = TRUE]
                 ELSE [s1 EXCEPT !.ifs = n.ifs, !.ifl = n.ifl, !.leds[s1.led][role] = n.l]

\* one option of the command line, as <<letter>> or <<letter, argument>>
ApplyOpt(st, opt) ==
    IF st.err THEN st
    ELSE CASE opt[1] = "d" -> SetType(st, LED_DISK)
           [] opt[1] = "u" -> SetType(st, LED_CPU)
           [] opt[1] = "r" -> SetType(st, LED_RUNNING)
           [] opt[1] = "R" -> LET s1 == SetType(st, LED_RUNNING)
                              IN  IF s1.err THEN s1 ELSE [s1 EXCEPT !.fast_mode = 1]
           [] opt[1] = "S" -> [st EXCEPT !.switch_mode = 1]
           [] opt[1] = "i" -> AddIf(st, "intf", opt[2], IF_CHECK_BOTH)
           [] opt[1] = "s" -> AddIf(st, "slave", opt[2], IF_CHECK_LOGICAL)
           [] opt[1] = "t" -> AddIf(st, "tun", opt[2], IF_CHECK_LOGICAL)
           [] opt[1] = "l" -> IF opt[2] < 1 \/ opt[2] > 3 THEN [st EXCEPT !.err = TRUE]
                              ELSE [st EXCEPT !.led = opt[2] - 1,
                                              !.led_mask = BitOr(@, 2 ^ (opt[2] - 1))]
           [] OTHER -> [st EXCEPT !.err = TRUE]

RECURSIVE ParseArgs(_, _)
ParseArgs(st, args) ==
    IF args = <<>> THEN st ELSE ParseArgs(ApplyOpt(st, Head(args)), Tail(args))

\* the configuration the scheduler loop starts from, err set if main() died
\* ("we want at least one led!")
Configure(args) ==
    LET st == ParseArgs(parse0, args)
    IN  IF st.led_mask = 0 THEN [st EXCEPT !.err = TRUE] ELSE st


(***************************************************************************)
(* Status samplers                                                         *)
(***************************************************************************)
\* What the system reports for one interface at a poll: its line is in
\* /proc/net/dev, SIOCGIFFLAGS has IFF_UP, ETHTOOL_GLINK returns 1.  The two
\* ioctl are only made for an interface that is present.
IfAbsent == [present |-> FALSE, up |-> FALSE, link |-> FALSE]
IfUp == [present |-> TRUE, up |-> TRUE, link |-> TRUE]
IfReports == {IfAbsent} \cup [present : {TRUE}, up : BOOLEAN, link : BOOLEAN]

\* status of one interface after check_if_status()
IfStatus(check, rep) ==
    IF ~rep.present THEN IF_CHECK_NONE
    ELSE BitOr(IF_CHECK_PRESENT,
         BitOr(IF BitAnd(check, IF_CHECK_LOGICAL) = 0 \/ rep.up
               THEN IF_CHECK_LOGICAL ELSE 0,
               IF BitAnd(check, IF_CHECK_PHYSICAL) = 0 \/ rep.link
               THEN IF_CHECK_PHYSICAL ELSE 0))

\* Faulty variant of check_if_status: the statuses are kept when
\* /proc/net/dev cannot be read.
check_if_status_keep(tbl, readable, rep) ==
    [k \in 1 .. Len(tbl) |->
        [tbl[k] EXCEPT !.status =
            IF readable THEN IfStatus(tbl[k].check, rep[k]) ELSE @]]

\* check_if_status(): readable says whether /proc/net/dev could be read,
\* rep[k] is what the system reports for ifs[k]
check_if_status(tbl, readable, rep) ==
    [k \in 1 .. Len(tbl) |->
        [tbl[k] EXCEPT !.status =
            IF readable THEN IfStatus(tbl[k].check, rep[k]) ELSE IF_CHECK_NONE]]

\* Faulty variant of walk_ret: a status other than the one last seen is not
\* reported.
walk_ret_silent(st, prev, check, flag, ret) ==
    IF BitAnd(st, check) = check THEN BitOr(ret, flag) ELSE ret

\* the flags check_if_list() has after one element whose interface has status
\* st and whose prev_status was prev
walk_ret(st, prev, check, flag, ret) ==
    BitOr(IF BitAnd(st, check) = check THEN BitOr(ret, flag) ELSE ret,
          IF prev # st THEN LINK_CHANGED ELSE 0)

\* check_if_list(): l is the list as a sequence of ifl indices, head first.
\* [ret |-> the flags returned, ifl |-> the elements with prev_status updated]
RECURSIVE check_if_walk(_, _, _, _, _, _)
check_if_walk(tbl, lst, l, check, flag, ret) ==
    IF l = <<>> THEN [ret |-> ret, ifl |-> lst]
    ELSE check_if_walk(tbl,
                       [lst EXCEPT ![Head(l)].prev_status = tbl[lst[Head(l)].ifs].status],
                       Tail(l), check, flag,
                       walk_ret(tbl[lst[Head(l)].ifs].status, lst[Head(l)].prev_status,
                                check, flag, ret))

\* Faulty variant of check_if_list: only the head of the list is looked at.
check_if_list_head(tbl, lst, l, check, flag) ==
    IF l = <<>> THEN [ret |-> flag, ifl |-> lst]
    ELSE check_if_walk(tbl, lst, <<Head(l)>>, check, flag, 0)

check_if_list(tbl, lst, l, check, flag) ==
    IF l = <<>> THEN [ret |-> flag, ifl |-> lst]
    ELSE check_if_walk(tbl, lst, l, check, flag, 0)

\* What a read of /proc/uptime or /proc/interrupts gives: ok is whether
\* readfile() returned more than 0; the rest are the numbers parsed.
CpuRead(ok, total, idle) == [ok |-> ok, total |-> total, idle |-> idle]
DiskRead(ok, total) == [ok |-> ok, total |-> total]

\* usage after the two bounds tests of update_cpu(); cpu_usage is unsigned,
\* so "< 0" is never true
ClampUsage(u) == IF WLt(U32(100), u) THEN 100 ELSE u[1] * HALF + u[2]

\* Faulty variant of DivGuard: the total delta is not tested.
DivGuard_prev(prev_total, total) == prev_total # U32Zero

\* the test that guards the division of update_cpu(): an older sample is
\* there (its total is not 0) and the total time moved
DivGuard(prev_total, total) == prev_total # U32Zero /\ total # U32Zero

\* "kernel 2.6 workaround": the idle delta is capped by the total delta
IdleCap(idle, total) == IF WLt(total, idle) THEN total ELSE idle

\* Faulty variant of UsageOf: the share of the idle time.
UsageOf_idle(total, idle) == UDiv(UMul(idle, 100), total)

\* ((total - idle)*100) / total on unsigned int
UsageOf(total, idle) == UDiv(UMul(USub(total, idle), 100), total)

\* Faulty variant of NewUsage: no cap of the idle delta, no bounds tests,
\* and the quotient kept as an int.
NewUsage_raw(prev_total, total, idle, usage) ==
    IF DivGuard(prev_total, total) /\ total # U32Zero
    THEN S32(UsageOf(total, idle))
    ELSE usage

\* Faulty variant of NewUsage: the usage is reset when nothing is computed.
NewUsage_zero(prev_total, total, idle, usage) ==
    ClampUsage(IF DivGuard(prev_total, total) /\ total # U32Zero
               THEN UsageOf(total, IdleCap(idle, total))
               ELSE U32Zero)

\* cpu_usage as update_cpu() leaves it, from the older total, the two deltas
\* and the usage so far
NewUsage(prev_total, total, idle, usage) ==
    ClampUsage(IF DivGuard(prev_total, total) /\ total # U32Zero
               THEN UsageOf(total, IdleCap(idle, total))
               ELSE U32(usage))

\* update_cpu(): [cpu |-> led->cpu afterwards, ret |-> 0 or 1,
\* fpe |-> the division was executed with a divisor of 0 (SIGFPE)]
update_cpu(cpu, rd) ==
    IF ~rd.ok THEN [cpu |-> cpu, ret |-> 0, fpe |-> FALSE]
    ELSE [cpu |-> [cpu_total |-> <<cpu.cpu_total[2], rd.total>>,
                   cpu_idle |-> <<cpu.cpu_idle[2], rd.idle>>,
                   cpu_usage |-> NewUsage(cpu.cpu_total[2],
                                          USub(rd.total, cpu.cpu_total[2]),
                                          USub(rd.idle, cpu.cpu_idle[2]),
                                          cpu.cpu_usage)],
          ret |-> 1,
          fpe |-> DivGuard(cpu.cpu_total[2], USub(rd.total, cpu.cpu_total[2]))
                  /\ USub(rd.total, cpu.cpu_total[2]) = U32Zero]

\* update_disk(): [ide |-> led->ide afterwards, ret |-> 0 or 1]
update_disk(ide, rd) ==
    IF ~rd.ok THEN [ide |-> ide, ret |-> 0]
    ELSE [ide |-> [count |-> <<ide.count[2], rd.total>>,
                   disk_usage |-> USub(rd.total, ide.count[2])],
          ret |-> 1]

(***************************************************************************)
(* LED automata.  Each returns the struct led afterwards and w, the levels *)
(* it passed to setled(), in order.                                        *)
(***************************************************************************)
\* the switch of manage_disk(), on the state just computed
disk_show(led) ==
    CASE led.state = 1 -> [led |-> [led EXCEPT !.sleep = (SLEEP_1SEC * 250) \div 1000],
                           w |-> <<OFF>>]
      [] led.state = 2 -> [led |-> [led EXCEPT !.sleep = (SLEEP_1SEC * 100) \div 1000],
                           w |-> <<ON>>]
      [] led.state = 3 -> [led |-> [led EXCEPT !.sleep = (SLEEP_1SEC * 25) \div 1000],
                           w |-> <<OFF>>]
      [] OTHER -> [led |-> led, w |-> <<>>]

\* Faulty variant of disk_next: state 3 always goes back to state 1.
disk_next_idle(led) ==
    [led EXCEPT !.state = IF led.state = 1
                          THEN (IF led.ide.disk_usage # U32Zero THEN 2 ELSE 1)
                          ELSE IF led.state = 3 THEN 1
                          ELSE led.state + 1]

\* the state manage_disk() moves to from a state other than 0, led->ide
\* being already updated
disk_next(led) ==
    [led EXCEPT !.state = IF led.state = 1 \/ led.state = 3
                          THEN (IF led.ide.disk_usage # U32Zero THEN 2 ELSE 1)
                          ELSE led.state + 1]

\* state 0 of manage_disk(), u being what update_disk() returned
disk_boot(led, u) ==
    [led |-> [led EXCEPT !.ide = u.ide,
                         !.state = IF u.ret = 1 THEN 1 ELSE 0,
                         !.sleep = (SLEEP_1SEC * 250) \div 1000],
     w |-> <<OFF>>]

\* manage_disk() calls update_disk(): in state 0, and "if (led->state <= 2)"
disk_reads(led) == led.state <= 2

\* Faulty variant of manage_disk: the counter is only read in states 0 and 1.
manage_disk_idle(led, rd) ==
    IF led.state = 0 THEN disk_boot(led, update_disk(led.ide, rd))
    ELSE IF led.state <= 1
    THEN disk_show(disk_next([led EXCEPT !.ide = update_disk(led.ide, rd).ide]))
    ELSE disk_show(disk_next(led))

\* manage_disk()
manage_disk(led, rd) ==
    IF led.state = 0 THEN disk_boot(led, update_disk(led.ide, rd))
    ELSE IF led.state <= 2
    THEN disk_show(disk_next([led EXCEPT !.ide = update_disk(led.ide, rd).ide]))
    ELSE disk_show(disk_next(led))

\* Faulty variant of cpu_limit: a fast variation divides the limit by ten.
cpu_limit_tenth(usage, last_usage) ==
    IF (IF usage - last_usage < 0 THEN last_usage - usage ELSE usage - last_usage) < 10
    THEN usage \div 10
    ELSE usage \div 100

\* limit chosen by the resample of manage_cpu()
cpu_limit(usage, last_usage) ==
    IF (IF usage - last_usage < 0 THEN last_usage - usage ELSE usage - last_usage) < 10
    THEN usage \div 10
    ELSE usage \div 50

\* the resample of manage_cpu(), u being what update_cpu() returned: [led, fpe]
cpu_resampled(led, u) ==
    [led |-> [led EXCEPT !.cpu = u.cpu,
                         !.limit = cpu_limit(u.cpu.cpu_usage, led.cpu.cpu_usage),
                         !.count = 0],
     fpe |-> u.fpe]

\* "led->count++; if (led->count >= led->limit) { ... }": [led, fpe]
cpu_count(led, rd) ==
    IF led.count + 1 >= led.limit
    THEN cpu_resampled([led EXCEPT !.count = @ + 1], update_cpu(led.cpu, rd))
    ELSE [led |-> [led EXCEPT !.count = @ + 1], fpe |-> FALSE]

\* "base + slope * (100 - led->cpu.cpu_usage)" stored into led->sleep: the
\* difference and the product are unsigned, as cpu_usage is
cpu_delay(base, slope, usage) ==
    S32(UAdd(U32(base), UMul(USub(U32(100), U32(usage)), slope)))

\* Faulty variant of cpu_show: the two durations are exchanged.
cpu_show_swapped(r) ==
    CASE r.led.state = 1 ->
           [led |-> [r.led EXCEPT
               !.sleep = (SLEEP_1SEC * 60) \div 1000
                         + ((SLEEP_1SEC * 44) \div 10000) * (100 - r.led.cpu.cpu_usage),
               !.state = 2],
            w |-> <<ON>>, fpe |-> r.fpe]
      [] r.led.state = 2 ->
           [led |-> [r.led EXCEPT
               !.sleep = (SLEEP_1SEC * 40) \div 1000
                         + ((SLEEP_1SEC * 46) \div 10000) * (100 - r.led.cpu.cpu_usage),
               !.state = 1],
            w |-> <<OFF>>, fpe |-> r.fpe]
      [] OTHER -> [led |-> r.led, w |-> <<>>, fpe |-> r.fpe]

\* Faulty variant of cpu_show: the durations are taken from usage - 100.
cpu_show_signed(r) ==
    CASE r.led.state = 1 ->
           [led |-> [r.led EXCEPT
               !.sleep = (SLEEP_1SEC * 40) \div 1000
                         + ((SLEEP_1SEC * 46) \div 10000) * (r.led.cpu.cpu_usage - 100),
               !.state = 2],
            w |-> <<ON>>, fpe |-> r.fpe]
      [] r.led.state = 2 ->
           [led |-> [r.led EXCEPT
               !.sleep = (SLEEP_1SEC * 60) \div 1000
                         + ((SLEEP_1SEC * 44) \div 10000) * (r.led.cpu.cpu_usage - 100),
               !.state = 1],
            w |-> <<OFF>>, fpe |-> r.fpe]
      [] OTHER -> [led |-> r.led, w |-> <<>>, fpe |-> r.fpe]

\* the switch of manage_cpu(), r being [led, fpe] so far: [led, w, fpe]
cpu_show(r) ==
    CASE r.led.state = 1 ->
           [led |-> [r.led EXCEPT
               !.sleep = cpu_delay((SLEEP_1SEC * 40) \div 1000, (SLEEP_1SEC * 46) \div 10000,
                                   r.led.cpu.cpu_usage),
               !.state = 2],
            w |-> <<ON>>, fpe |-> r.fpe]
      [] r.led.state = 2 ->
           [led |-> [r.led EXCEPT
               !.sleep = cpu_delay((SLEEP_1SEC * 60) \div 1000, (SLEEP_1SEC * 44) \div 10000,
                                   r.led.cpu.cpu_usage),
               !.state = 1],
            w |-> <<OFF>>, fpe |-> r.fpe]
      [] OTHER -> [led |-> r.led, w |-> <<>>, fpe |-> r.fpe]

\* Faulty variant of cpu_boot: state 0 is left whatever update_cpu() returned.
cpu_boot_always(led, u) ==
    [led |-> [led EXCEPT !.cpu = u.cpu,
                         !.state = 1,
                         !.count = 0, !.limit = 1,
                         !.sleep = SLEEP_1SEC \div 2],
     w |-> <<>>, fpe |-> u.fpe]

\* state 0 of manage_cpu(), u being what update_cpu() returned
cpu_boot(led, u) ==
    [led |-> [led EXCEPT !.cpu = u.cpu,
                         !.state = IF u.ret = 1 THEN 1 ELSE 0,
                         !.count = 0, !.limit = 1,
                         !.sleep = SLEEP_1SEC \div 2],
     w |-> <<>>, fpe |-> u.fpe]

\* manage_cpu() calls update_cpu(): in state 0, and when the incremented
\* count reaches limit
cpu_reads(led) == led.state = 0 \/ led.count + 1 >= led.limit

\* manage_cpu(): [led, w, fpe]
manage_cpu(led, rd) ==
    IF led.state = 0 THEN cpu_boot(led, update_cpu(led.cpu, rd))
    ELSE cpu_show(cpu_count(led, rd))

\* Faulty variant of manage_running: the off phase ignores fast_mode.
manage_running_slowoff(led, fast) ==
    CASE led.state = 0 \/ led.state = 1 ->
           [led |-> [led EXCEPT
               !.sleep = IF fast # 0 THEN (SLEEP_1SEC * 5) \div 100
                         ELSE (SLEEP_1SEC * 40) \div 100,
               !.state = 2],
            w |-> <<ON>>]
      [] led.state = 2 ->
           [led |-> [led EXCEPT !.sleep = (SLEEP_1SEC * 60) \div 100, !.state = 1],
            w |-> <<OFF>>]
      [] OTHER -> [led |-> led, w |-> <<>>]

\* manage_running(); fast is the value of fast_mode read by the step
manage_running(led, fast) ==
    CASE led.state = 0 \/ led.state = 1 ->
           [led |-> [led EXCEPT
               !.sleep = IF fast # 0 THEN (SLEEP_1SEC * 5) \div 100
                         ELSE (SLEEP_1SEC * 40) \div 100,
               !.state = 2],
            w |-> <<ON>>]
      [] led.state = 2 ->
           [led |-> [led EXCEPT
               !.sleep = IF fast # 0 THEN (SLEEP_1SEC * 5) \div 100
                         ELSE (SLEEP_1SEC * 60) \div 100,
               !.state = 1],
            w |-> <<OFF>>]
      [] OTHER -> [led |-> led, w |-> <<>>]

\* status word of manage_net() after one more check_if_list(), r being what
\* that call returned: [status, ifl]
net_or(status, r) == [status |-> BitOr(status, r.ret), ifl |-> r.ifl]

\* F(x), x being computed once, as the value a C expression leaves in a local
Once(F(_), x) == CHOOSE y \in {F(v) : v \in {x}} : TRUE

net_intf(led, tbl, lst) ==
    net_or(0, check_if_list(tbl, lst, led.intf, IF_CHECK_BOTH, ETH_UP))

net_slave(led, tbl, s) ==
    net_or(s.status, check_if_list(tbl, s.ifl, led.slave, IF_CHECK_LOGICAL, SLAVE_UP))

net_tun(led, tbl, s) ==
    net_or(s.status, check_if_list(tbl, s.ifl, led.tun, IF_CHECK_LOGICAL, TUN_UP))

\* the three check_if_list() calls of manage_net(), in order: [status, ifl]
net_status(led, tbl, lst) ==
    Once(LAMBDA s2 : net_tun(led, tbl, s2),
         Once(LAMBDA s1 : net_slave(led, tbl, s1), net_intf(led, tbl, lst)))

\* Faulty variant of net_limit: the slave role is not looked at.
net_limit_noslave(status) ==
    IF BitAnd(status, ETH_UP) # 0 THEN MAXSTEPS ELSE 0

\* limit derived from the status word at the first step of a cycle
net_limit(status) ==
    IF BitAnd(status, ETH_UP + SLAVE_UP + TUN_UP) = ETH_UP + SLAVE_UP + TUN_UP
    THEN MAXSTEPS
    ELSE IF BitAnd(status, ETH_UP + SLAVE_UP + TUN_UP) = ETH_UP + SLAVE_UP
    THEN MAXSTEPS
    ELSE IF BitAnd(status, ETH_UP) # 0 THEN MAXSTEPS \div 2
    ELSE 0

\* Faulty variant of net_flash: the double flash of the level takes
\* precedence over the single flash of a change.
net_flash_level(status) ==
    IF BitAnd(status, ETH_UP + SLAVE_UP + TUN_UP) = ETH_UP + SLAVE_UP THEN 2
    ELSE IF BitAnd(status, LINK_CHANGED) # 0 THEN 1
    ELSE 0

\* flash derived from the status word at the first step of a cycle
net_flash(status) ==
    IF BitAnd(status, LINK_CHANGED) # 0 THEN 1
    ELSE IF BitAnd(status, ETH_UP + SLAVE_UP + TUN_UP) = ETH_UP + SLAVE_UP THEN 2
    ELSE 0

\* "if (led->count == 0) { ... }" of case 1, s being the status word and the
\* list elements after the checks: [led, ifl]
net_eval(led, s) ==
    [led |-> [led EXCEPT !.state = 1, !.limit = net_limit(s.status),
                         !.flash = net_flash(s.status)],
     ifl |-> s.ifl]

\* Faulty variant of net_show: the step counter is compared with "<=".
net_show_le(e) ==
    IF e.led.count = 0 /\ e.led.flash # 0
    THEN IF e.led.flash = 2
         THEN [led |-> [e.led EXCEPT !.sleep = (SLEEP_500M * 45) \div 100, !.state = 2],
               ifl |-> e.ifl, w |-> <<ON>>]
         ELSE [led |-> [e.led EXCEPT !.sleep = (SLEEP_500M * 85) \div 100, !.state = 4],
               ifl |-> e.ifl, w |-> <<ON>>]
    ELSE IF e.led.count <= e.led.limit
    THEN [led |-> [e.led EXCEPT !.sleep = SLEEP_500M], ifl |-> e.ifl, w |-> <<ON>>]
    ELSE [led |-> [e.led EXCEPT !.sleep = SLEEP_500M], ifl |-> e.ifl, w |-> <<OFF>>]

\* Faulty variant of net_show: the single flash is lit for 80% of a step.
net_show_short(e) ==
    IF e.led.count = 0 /\ e.led.flash # 0
    THEN IF e.led.flash = 2
         THEN [led |-> [e.led EXCEPT !.sleep = (SLEEP_500M * 45) \div 100, !.state = 2],
               ifl |-> e.ifl, w |-> <<ON>>]
         ELSE [led |-> [e.led EXCEPT !.sleep = (SLEEP_500M * 80) \div 100, !.state = 4],
               ifl |-> e.ifl, w |-> <<ON>>]
    ELSE IF e.led.count < e.led.limit
    THEN [led |-> [e.led EXCEPT !.sleep = SLEEP_500M], ifl |-> e.ifl, w |-> <<ON>>]
    ELSE [led |-> [e.led EXCEPT !.sleep = SLEEP_500M], ifl |-> e.ifl, w |-> <<OFF>>]

\* the if / else if / else that ends case 1: [led, ifl, w]
net_show(e) ==
    IF e.led.count = 0 /\ e.led.flash # 0
    THEN IF e.led.flash = 2
         THEN [led |-> [e.led EXCEPT !.sleep = (SLEEP_500M * 45) \div 100, !.state = 2],
               ifl |-> e.ifl, w |-> <<ON>>]
         ELSE [led |-> [e.led EXCEPT !.sleep = (SLEEP_500M * 85) \div 100, !.state = 4],
               ifl |-> e.ifl, w |-> <<ON>>]
    ELSE IF e.led.count < e.led.limit
    THEN [led |-> [e.led EXCEPT !.sleep = SLEEP_500M], ifl |-> e.ifl, w |-> <<ON>>]
    ELSE [led |-> [e.led EXCEPT !.sleep = SLEEP_500M], ifl |-> e.ifl, w |-> <<OFF>>]

\* case 1 of manage_net(), entered from state 0 too: [led, ifl, w]
net_render(led, tbl, lst) ==
    IF led.count = 0
    THEN Once(net_show, Once(LAMBDA s : net_eval(led, s), net_status(led, tbl, lst)))
    ELSE net_show([led |-> [led EXCEPT !.state = 1], ifl |-> lst])

\* Faulty variant of net_count: count goes up to MAXSTEPS before it wraps.
net_count_late(r) ==
    IF r.led.state = 1
    THEN [r EXCEPT !.led.count = IF r.led.count + 1 > MAXSTEPS THEN 0
                                 ELSE r.led.count + 1]
    ELSE r

\* the "if (led->state == 1)" that ends manage_net(): count modulo MAXSTEPS
net_count(r) ==
    IF r.led.state = 1
    THEN [r EXCEPT !.led.count = IF r.led.count + 1 >= MAXSTEPS THEN 0
                                 ELSE r.led.count + 1]
    ELSE r

\* manage_net(): [led, ifl, w]
manage_net(led, tbl, lst) ==
    Once(net_count,
        CASE led.state = 0 \/ led.state = 1 -> net_render(led, tbl, lst)
          [] led.state = 2 ->
               [led |-> [led EXCEPT !.sleep = (SLEEP_500M * 15) \div 100, !.state = 3],
                ifl |-> lst, w |-> <<OFF>>]
          [] led.state = 3 ->
               [led |-> [led EXCEPT !.sleep = (SLEEP_500M * 25) \div 100, !.state = 4],
                ifl |-> lst, w |-> <<ON>>]
          [] led.state = 4 ->
               [led |-> [led EXCEPT !.sleep = (SLEEP_500M * 15) \div 100, !.state = 1],
                ifl |-> lst, w |-> <<OFF>>]
          [] OTHER -> [led |-> led, ifl |-> lst, w |-> <<>>])

\* signals that interrupt one sleep of the scheduler loop, at most
MaxEintr == 2

\* Faulty variant of sig_handler: either signal flips fast_mode.
sig_handler_flip(sig, fast) ==
    CASE sig = "SIGUSR1" -> 1 - fast
      [] sig = "SIGUSR2" -> 1 - fast
      [] OTHER -> fast

\* sig_handler(): fast_mode afterwards
sig_handler(sig, fast) ==
    CASE sig = "SIGUSR1" -> 0
      [] sig = "SIGUSR2" -> 1
      [] OTHER -> fast

(***************************************************************************)
(* The scheduler loop of main(), one action per stretch of code between    *)
(* two points where a signal can be observed.                              *)
(*   pc = "net"      top of the loop body, before the interface poll       *)
(*   pc = "dispatch" in the first for loop, about to handle leds[led_num]  *)
(*   pc = "min"      before the second for loop                            *)
(*   pc = "usleep"   in usleep(sleep_time)                                 *)
(*   pc = "account"  usleep() returned 0, before the bookkeeping           *)
(*   pc = "crashed"  the process was killed by SIGFPE                      *)
(***************************************************************************)
Active(i) == leds[i].type # LED_UNUSED

\* The locals of the switch mode while it is not running.  prog is the
\* program ("alix-leds", or "alix-switch"), switch_mode and led_mask the
\* locals of main() of these names, light the level the next iteration
\* writes (ON for LED_ON, OFF for ~LED_ON), sleep the argument
\* of the usleep() under way, n the iterations made, w the <<LED, level>>
\* written by the latest step in order, status the exit status.
sw0 ==
    [prog |-> "alix-leds", switch_mode |-> 0, led_mask |-> 0, light |-> ON,
     sleep |-> 0, n |-> 0, w |-> <<>>, status |-> "none"]

\* the loop is entered with the configuration st
InitState(st) ==
    /\ ~st.err
    /\ st.switch_mode = 0
    /\ sw = sw0
    /\ leds = st.leds
    /\ ifs = st.ifs
    /\ ifl = st.ifl
    /\ fast_mode = st.fast_mode
    /\ net_sleep = 0
    /\ sleep_time = 0
    /\ led_num = 0
    /\ pc = "net"
    /\ out = [i \in LedIds |-> "none"]
    /\ writes = <<>>
    /\ healthy = TRUE
    /\ naps = <<>>
    /\ rdok = "none"
    /\ since = -1
    /\ calls = [i \in LedIds |-> 0]
    /\ age = [i \in LedIds |-> -1]

\* state from a command line
InitArgs(args) == InitState(Configure(args))

AllUp(tbl) == \A k \in 1 .. Len(tbl) : tbl[k].status = IF_CHECK_PRESENT + IF_CHECK_BOTH

\* what a step that calls readfile() when reads holds, with success ok,
\* leaves in rdok
ReadOutcome(reads, ok) == IF ~reads THEN "none" ELSE IF ok THEN "ok" ELSE "fail"

\* the interface table becomes tbl
Polled(tbl) ==
    /\ ifs' = tbl
    /\ healthy' = (healthy /\ AllUp(tbl))

\* Faulty variant of NetPoll: net_sleep is not looked at.
NetPoll_always(Reports) ==
    /\ pc = "net"
    /\ IF nbifs # 0
       THEN /\ \E readable \in BOOLEAN, rep \in [1 .. nbifs -> Reports] :
                 /\ Polled(check_if_status(ifs, readable, rep))
                 /\ rdok' = ReadOutcome(TRUE, readable)
            /\ net_sleep' = SLEEP_500M
            /\ sleep_time' = SLEEP_500M
            /\ since' = 0
       ELSE /\ sleep_time' = MAXSLEEP
            /\ UNCHANGED <<ifs, healthy, net_sleep>>
            /\ rdok' = "none"
            /\ UNCHANGED since
    /\ led_num' = 0
    /\ pc' = "dispatch"
    /\ UNCHANGED <<leds, ifl, fast_mode, out, writes>>
    /\ UNCHANGED naps
    /\ UNCHANGED sw
    /\ UNCHANGED calls
    /\ UNCHANGED age

\* "if (nbifs && net_sleep <= 0) { check_if_status(); ... }", with what the
\* system reports drawn from Reports
NetPoll(Reports) ==
    /\ pc = "net"
    /\ IF nbifs # 0 /\ net_sleep <= 0
       THEN /\ \E readable \in BOOLEAN, rep \in [1 .. nbifs -> Reports] :
                 /\ Polled(check_if_status(ifs, readable, rep))
                 /\ rdok' = ReadOutcome(TRUE, readable)
            /\ net_sleep' = SLEEP_500M
            /\ sleep_time' = SLEEP_500M
            /\ since' = 0
       ELSE /\ sleep_time' = MAXSLEEP
            /\ UNCHANGED <<ifs, healthy, net_sleep>>
            /\ rdok' = "none"
            /\ UNCHANGED since
    /\ led_num' = 0
    /\ pc' = "dispatch"
    /\ UNCHANGED <<leds, ifl, fast_mode, out, writes>>
    /\ UNCHANGED naps
    /\ UNCHANGED sw
    /\ UNCHANGED calls
    /\ UNCHANGED age

\* the end of one iteration of the dispatch loop
NextLed ==
    /\ led_num' = led_num + 1
    /\ pc' = IF led_num + 1 < 3 THEN "dispatch" ELSE "min"

\* Faulty variant of Due: a delay of exactly 0 is not expired.
Due_strict(i) == leds[i].type # LED_UNUSED /\ leds[i].sleep < 0

\* Faulty variant of Due: the delay is not looked at.
Due_any(i) == leds[i].type # LED_UNUSED

Due(i) == leds[i].type # LED_UNUSED /\ leds[i].sleep <= 0

\* the call of manage_*() for this LED is one of manage_net() with
\* "led->count == 0" in case 0 or 1: the statuses are evaluated
Evaluates(led) == led.type = LED_NET /\ led.state \in {0, 1} /\ led.count = 0

\* calls[i] stops counting at MaxCalls
MaxCalls == 3

\* LED i was stepped: r.led is its struct afterwards, r.w the levels written
Stepped(i, r) ==
    /\ leds' = [leds EXCEPT ![i] = r.led]
    /\ calls' = [calls EXCEPT ![i] = IF @ < MaxCalls THEN @ + 1 ELSE @]
    /\ age' = [age EXCEPT ![i] = IF Evaluates(leds[i]) THEN 0 ELSE @]
    /\ writes' = r.w
    /\ out' = IF r.w = <<>> THEN out ELSE [out EXCEPT ![i] = r.w[Len(r.w)]]

NetStepped(i, r) == Stepped(i, r) /\ ifl' = r.ifl

CpuStepped(i, r) ==
    /\ Stepped(i, r)
    /\ IF r.fpe THEN pc' = "crashed" /\ led_num' = led_num ELSE NextLed

\* an iteration that hits one of the two "continue"
DispatchSkip ==
    /\ pc = "dispatch"
    /\ ~Due(led_num)
    /\ writes' = <<>>
    /\ NextLed
    /\ UNCHANGED <<leds, ifs, ifl, fast_mode, net_sleep, sleep_time, out, healthy>>
    /\ rdok' = "none"
    /\ UNCHANGED naps
    /\ UNCHANGED sw
    /\ UNCHANGED calls
    /\ UNCHANGED age
    /\ UNCHANGED since

DispatchNet ==
    /\ pc = "dispatch"
    /\ Due(led_num)
    /\ leds[led_num].type = LED_NET
    /\ \E r \in {manage_net(leds[led_num], ifs, ifl)} : NetStepped(led_num, r)
    /\ NextLed
    /\ UNCHANGED <<ifs, fast_mode, net_sleep, sleep_time, healthy>>
    /\ rdok' = "none"
    /\ UNCHANGED naps
    /\ UNCHANGED sw
    /\ UNCHANGED since

DispatchRunning ==
    /\ pc = "dispatch"
    /\ Due(led_num)
    /\ leds[led_num].type = LED_RUNNING
    /\ Stepped(led_num, manage_running(leds[led_num], fast_mode))
    /\ NextLed
    /\ UNCHANGED <<ifs, ifl, fast_mode, net_sleep, sleep_time, healthy>>
    /\ rdok' = "none"
    /\ UNCHANGED naps
    /\ UNCHANGED sw
    /\ UNCHANGED since

\* Reads: what a read of /proc/uptime may give
DispatchCpu(Reads) ==
    /\ pc = "dispatch"
    /\ Due(led_num)
    /\ leds[led_num].type = LED_CPU
    /\ \E rd \in Reads :
           /\ CpuStepped(led_num, manage_cpu(leds[led_num], rd))
           /\ rdok' = ReadOutcome(cpu_reads(leds[led_num]), rd.ok)
    /\ UNCHANGED <<ifs, ifl, fast_mode, net_sleep, sleep_time, healthy>>
    /\ UNCHANGED naps
    /\ UNCHANGED sw
    /\ UNCHANGED since

\* Reads: what a read of /proc/interrupts may give
DispatchDisk(Reads) ==
    /\ pc = "dispatch"
    /\ Due(led_num)
    /\ leds[led_num].type = LED_DISK
    /\ \E rd \in Reads :
           /\ Stepped(led_num, manage_disk(leds[led_num], rd))
           /\ rdok' = ReadOutcome(disk_reads(leds[led_num]), rd.ok)
    /\ NextLed
    /\ UNCHANGED <<ifs, ifl, fast_mode, net_sleep, sleep_time, healthy>>
    /\ UNCHANGED naps
    /\ UNCHANGED sw
    /\ UNCHANGED since

\* Faulty variant of min_sleep: the scan stops before the last slot.
RECURSIVE min_sleep_short(_, _, _)
min_sleep_short(ls, i, t) ==
    IF i > 1 THEN t
    ELSE min_sleep_short(ls, i + 1,
                         IF ls[i].type # LED_UNUSED /\ ls[i].sleep < t THEN ls[i].sleep ELSE t)

\* the second for loop: sleep_time lowered to the smallest sleep of the
\* LEDs in use, scanning slots 0, 1, 2
RECURSIVE min_sleep(_, _, _)
min_sleep(ls, i, t) ==
    IF i > 2 THEN t
    ELSE min_sleep(ls, i + 1,
                   IF ls[i].type # LED_UNUSED /\ ls[i].sleep < t THEN ls[i].sleep ELSE t)

MinSleep ==
    /\ pc = "min"
    /\ sleep_time' = min_sleep(leds, 0, sleep_time)
    /\ pc' = "usleep"
    /\ UNCHANGED <<leds, ifs, ifl, fast_mode, net_sleep, led_num, out, writes, healthy>>
    /\ rdok' = "none"
    /\ UNCHANGED naps
    /\ UNCHANGED sw
    /\ UNCHANGED calls
    /\ UNCHANGED age
    /\ UNCHANGED since

\* usleep(sleep_time) returns 0
Usleep ==
    /\ pc = "usleep"
    /\ pc' = "account"
    /\ UNCHANGED <<leds, ifs, ifl, fast_mode, net_sleep, sleep_time, led_num, out, writes, healthy>>
    /\ rdok' = "none"
    /\ UNCHANGED naps
    /\ UNCHANGED sw
    /\ UNCHANGED calls
    /\ UNCHANGED age
    /\ UNCHANGED since

\* Faulty variant of charge: the slot's type is not looked at.
charge_any(led, t) == [led EXCEPT !.sleep = @ - t]

\* the sleep charged to one LED
charge(led, t) == IF led.type # LED_UNUSED THEN [led EXCEPT !.sleep = @ - t] ELSE led

\* the bookkeeping after the sleep
Account ==
    /\ pc = "account"
    /\ net_sleep' = IF nbifs # 0 THEN net_sleep - sleep_time ELSE net_sleep
    /\ leds' = [i \in LedIds |-> charge(leds[i], sleep_time)]
    /\ pc' = "net"
    /\ UNCHANGED <<ifs, ifl, fast_mode, sleep_time, led_num, out, writes, healthy>>
    /\ rdok' = "none"
    /\ naps' = <<>>
    /\ UNCHANGED sw
    /\ UNCHANGED calls
    /\ since' = IF since < 0 THEN since ELSE since + sleep_time
    /\ age' = [i \in LedIds |-> IF age[i] < 0 THEN age[i] ELSE age[i] + sleep_time]

\* SIGUSR1 or SIGUSR2 is delivered while main() is not in usleep()
Signal ==
    /\ pc \notin {"usleep", "crashed"}
    /\ \E sig \in {"SIGUSR1", "SIGUSR2"} : fast_mode' = sig_handler(sig, fast_mode)
    /\ UNCHANGED <<leds, ifs, ifl, net_sleep, sleep_time, led_num, pc, out, writes, healthy>>
    /\ UNCHANGED <<naps, rdok>>
    /\ UNCHANGED sw
    /\ UNCHANGED calls
    /\ UNCHANGED age
    /\ UNCHANGED since

\* how long a usleep(t) may have lasted when a signal interrupts it
Elapsed(t) == {1, t \div 2}

\* Faulty variant of Eintr: the interrupted sleep is not taken again.
Eintr_skip ==
    /\ pc = "usleep"
    /\ Len(naps) < MaxEintr
    /\ \E sig \in {"SIGUSR1", "SIGUSR2"} : fast_mode' = sig_handler(sig, fast_mode)
    /\ \E t \in Elapsed(sleep_time) : naps' = Append(naps, t)
    /\ pc' = "account"
    /\ UNCHANGED <<leds, ifs, ifl, net_sleep, sleep_time, led_num, out, writes, healthy>>
    /\ UNCHANGED rdok
    /\ UNCHANGED sw
    /\ UNCHANGED calls
    /\ UNCHANGED age
    /\ UNCHANGED since

\* SIGUSR1 or SIGUSR2 is delivered during usleep(sleep_time): the handler
\* runs, usleep() returns -1 with errno == EINTR after some time, and the
\* while loop calls usleep(sleep_time) again
Eintr ==
    /\ pc = "usleep"
    /\ Len(naps) < MaxEintr
    /\ \E sig \in {"SIGUSR1", "SIGUSR2"} : fast_mode' = sig_handler(sig, fast_mode)
    /\ \E t \in Elapsed(sleep_time) : naps' = Append(naps, t)
    /\ UNCHANGED <<leds, ifs, ifl, net_sleep, sleep_time, led_num, pc, out, writes, healthy>>
    /\ UNCHANGED rdok
    /\ UNCHANGED sw
    /\ UNCHANGED calls
    /\ UNCHANGED age
    /\ UNCHANGED since

(***************************************************************************)
(* The switch mode: "if (switch_mode) { ... }" of main() in alix-leds.c    *)
(* and main() of alix-switch.c, which is that mode on the three LEDs.      *)
(*   pc = "start"     options parsed, I/O ports obtained                   *)
(*   pc = "sw_loop"   at the test of the while loop                        *)
(*   pc = "sw_sleep"  in usleep(150000)                                    *)
(*   pc = "exited"    main() has returned sw.status                        *)
(***************************************************************************)
\* iterations of the blink loop, at most
MaxBlink == 3

\* the LEDs of a mask, slot numbers 0 .. 2
Selected(mask) == {i \in LedIds : Bit(mask, i) = 1}

\* the setled() calls of one pass over LEDs 0, 1, 2 that writes level[i] to
\* the LEDs of S, in order
PassWrites(S, level) ==
    [k \in 1 .. Len(SelectSeq(<<0, 1, 2>>, LAMBDA i : i \in S)) |->
        <<SelectSeq(<<0, 1, 2>>, LAMBDA i : i \in S)[k],
          level[SelectSeq(<<0, 1, 2>>, LAMBDA i : i \in S)[k]]>>]

\* "restore previous LED status": LED 1 lit, LEDs 2 and 3 off
DefaultLevel == [i \in LedIds |-> IF i = 0 THEN ON ELSE OFF]

\* the LEDs written after the loop: alix-leds tests led_mask, alix-switch
\* writes the three of them
Restored(s) == IF s.prog = "alix-switch" THEN LedIds ELSE Selected(s.led_mask)

\* Faulty variant of Flip: the level is kept.
Flip_same(level) == level

\* "light = ~light"
Flip(level) == IF level = ON THEN OFF ELSE ON

\* the step wrote w
SwitchWrote(w) ==
    out' = [i \in LedIds |->
              IF \E k \in 1 .. Len(w) : w[k][1] = i
              THEN w[CHOOSE k \in 1 .. Len(w) : w[k][1] = i][2]
              ELSE out[i]]

\* nothing of the scheduler is touched
SchedulerIdle ==
    UNCHANGED <<leds, ifs, ifl, fast_mode, net_sleep, sleep_time, led_num, writes,
                healthy, naps, rdok, since, calls, age>>

\* main() goes on after the options: the switch mode if -S was given (always
\* in alix-switch), with the first switch_pressed(); the scheduler otherwise
Start ==
    /\ pc = "start"
    /\ IF sw.switch_mode = 0
       THEN pc' = "net" /\ UNCHANGED <<sw, out>>
       ELSE \E pressed \in BOOLEAN :
              IF pressed
              THEN /\ pc' = "sw_loop"
                   /\ sw' = [sw EXCEPT !.light = ON]
                   /\ UNCHANGED out
              ELSE /\ pc' = "exited"
                   /\ sw' = [sw EXCEPT !.status = 1]
                   /\ UNCHANGED out
    /\ SchedulerIdle

\* the loop test holds (a LED is selected and the switch is pressed): one
\* iteration up to usleep()
SwitchBlink ==
    /\ pc = "sw_loop"
    /\ sw.led_mask # 0
    /\ sw.n < MaxBlink
    /\ sw' = [sw EXCEPT !.w = PassWrites(Selected(sw.led_mask), [i \in LedIds |-> sw.light]),
                        !.sleep = 150000, !.n = @ + 1]
    /\ SwitchWrote(PassWrites(Selected(sw.led_mask), [i \in LedIds |-> sw.light]))
    /\ pc' = "sw_sleep"
    /\ SchedulerIdle

\* usleep(150000) returns; "light = ~light"
SwitchSleep ==
    /\ pc = "sw_sleep"
    /\ sw' = [sw EXCEPT !.light = Flip(@), !.sleep = 0, !.w = <<>>]
    /\ pc' = "sw_loop"
    /\ UNCHANGED out
    /\ SchedulerIdle

\* the loop test fails (no LED selected, or the switch is released): the
\* default levels are written and main() returns 0
SwitchRestore ==
    /\ pc = "sw_loop"
    /\ sw' = [sw EXCEPT !.w = PassWrites(Restored(sw), DefaultLevel), !.status = 0]
    /\ SwitchWrote(PassWrites(Restored(sw), DefaultLevel))
    /\ pc' = "exited"
    /\ SchedulerIdle

(***************************************************************************)
(* Specifications                                                          *)
(***************************************************************************)
\* the command line "-l 1 <o1> -l 2 <o2> -l 3 <o3>"; "none" leaves out the
\* -l of that slot too
SlotArgs(n, o) == IF o = "none" THEN <<>> ELSE <<<<"l", n>>>> \o o

CmdLine(o1, o2, o3) == SlotArgs(1, o1) \o SlotArgs(2, o2) \o SlotArgs(3, o3)

\* Command lines of the scheduler runs: no LED in use; two LEDs around a
\* free slot; a network LED with a CPU LED; three LEDs in use, two of them
\* network LEDs on the same interface
SchedCmdLines ==
    { CmdLine(<<>>, "none", "none"),
      CmdLine(<<<<"r">>>>, <<>>, <<<<"d">>>>),
      CmdLine(<<<<"i", "eth0">>>>, <<<<"u">>>>, "none"),
      CmdLine(<<<<"i", "eth0">>>>, <<<<"R">>>>, <<<<"s", "eth0">>>>) }

SchedReports == {IfAbsent, IfUp}

SchedCpuReads ==
    { CpuRead(FALSE, U32Zero, U32Zero),
      CpuRead(TRUE, U32(100), U32(100)),
      CpuRead(TRUE, U32(200), U32(100)) }

SchedDiskReads ==
    { DiskRead(FALSE, U32Zero), DiskRead(TRUE, U32(7)), DiskRead(TRUE, U32(8)) }

Init == \E args \in SchedCmdLines : InitArgs(args)

Next ==
    \/ NetPoll(SchedReports)
    \/ DispatchSkip
    \/ DispatchNet
    \/ DispatchRunning
    \/ DispatchCpu(SchedCpuReads)
    \/ DispatchDisk(SchedDiskReads)
    \/ MinSleep
    \/ Usleep
    \/ Account
    \/ Signal
    \/ Eintr

Spec == Init /\ [][Next]_vars


\* Command lines of the network runs: one network LED, every choice of the
\* roles that are configured, a role with two interfaces, an interface that
\* serves two roles
NetCmdLines ==
    { CmdLine(<<<<"i", "eth0">>>>, "none", "none"),
      CmdLine(<<<<"s", "ppp0">>>>, "none", "none"),
      CmdLine("none", <<<<"t", "tun0">>>>, "none"),
      CmdLine(<<<<"i", "eth0">>, <<"s", "ppp0">>>>, "none", "none"),
      CmdLine(<<<<"i", "eth0">>, <<"t", "tun0">>>>, "none", "none"),
      CmdLine("none", "none", <<<<"s", "ppp0">>, <<"t", "tun0">>>>),
      CmdLine(<<<<"i", "eth0">>, <<"s", "ppp0">>, <<"t", "tun0">>>>, "none", "none"),
      CmdLine(<<<<"i", "eth0">>, <<"i", "eth1">>>>, "none", "none"),
      CmdLine(<<<<"i", "eth0">>, <<"s", "eth0">>>>, "none", "none") }

InitNet == \E args \in NetCmdLines : InitArgs(args)

NextNet ==
    \/ NetPoll(IfReports)
    \/ DispatchSkip
    \/ DispatchNet
    \/ MinSleep
    \/ Usleep
    \/ Account

SpecNet == InitNet /\ [][NextNet]_vars


\* Reads of /proc/uptime in the CPU runs: a failed read; totals 0, 100, ...,
\* 100 * MaxTick with every idle value of IdleSamples (equal samples, idle
\* deltas above the total delta, counters going backwards); two samples a
\* little below 2^32, so that the next total wraps around; one total so far
\* ahead that (total - idle) * 100 exceeds 32 bits
MaxTick == 3

IdleSamples == {0, 100, 150, 160, 250}

CpuReads ==
    { CpuRead(FALSE, U32Zero, U32Zero) }
    \cup { CpuRead(TRUE, U32(100 * k), U32(i)) : k \in 0 .. MaxTick, i \in IdleSamples }
    \cup { CpuRead(TRUE, <<HALF - 1, HALF - 100>>, <<HALF - 1, HALF - 50>>),
           CpuRead(TRUE, <<HALF - 1, HALF - 100>>, <<HALF - 1, HALF - 100>>),
           CpuRead(TRUE, U32(60000100), U32(100)) }

InitCpu == InitArgs(CmdLine(<<<<"u">>>>, "none", "none"))

NextCpu ==
    \/ NetPoll(SchedReports)
    \/ DispatchSkip
    \/ DispatchCpu(CpuReads)
    \/ MinSleep
    \/ Usleep
    \/ Account

SpecCpu == InitCpu /\ [][NextCpu]_vars


\* the options "-l" of the LEDs of a mask
MaskArgs(mask) ==
    [k \in 1 .. Len(SelectSeq(<<0, 1, 2>>, LAMBDA i : Bit(mask, i) = 1)) |->
        <<"l", SelectSeq(<<0, 1, 2>>, LAMBDA i : Bit(mask, i) = 1)[k] + 1>>]

\* Command lines of the switch runs: alix-leds with -S and every choice of
\* LEDs, with -S and a LED that has a type, and without -S
SwitchCmdLines ==
    { MaskArgs(mask) \o <<<<"S">>>> : mask \in 0 .. 7 }
    \cup { <<<<"l", 2>>, <<"r">>, <<"S">>>>, <<<<"l", 1>>, <<"r">>>> }

\* alix-leds has parsed a command line
StartedLeds(st) ==
    /\ ~st.err
    /\ st.switch_mode = 1 \/ st.led_mask # 0
    /\ leds = st.leds /\ ifs = st.ifs /\ ifl = st.ifl /\ fast_mode = st.fast_mode
    /\ sw = [sw0 EXCEPT !.switch_mode = st.switch_mode, !.led_mask = st.led_mask]

\* alix-switch has parsed its command line, with or without -l
StartedSwitch(l) ==
    /\ leds = parse0.leds /\ ifs = <<>> /\ ifl = <<>> /\ fast_mode = 0
    /\ sw = [sw0 EXCEPT !.prog = "alix-switch", !.switch_mode = 1,
                        !.led_mask = IF l THEN 7 ELSE 0]

InitSwitch ==
    /\ \/ \E args \in SwitchCmdLines : StartedLeds(ParseArgs(parse0, args))
       \/ \E l \in BOOLEAN : StartedSwitch(l)
    /\ pc = "start"
    /\ net_sleep = 0 /\ sleep_time = 0 /\ led_num = 0
    /\ out = [i \in LedIds |-> "none"]
    /\ writes = <<>> /\ healthy = TRUE /\ naps = <<>> /\ rdok = "none" /\ since = -1
    /\ calls = [i \in LedIds |-> 0]
    /\ age = [i \in LedIds |-> -1]

NextSwitch ==
    \/ Start
    \/ SwitchBlink
    \/ SwitchSleep
    \/ SwitchRestore
    \/ NetPoll(SchedReports)
    \/ DispatchSkip
    \/ DispatchRunning
    \/ MinSleep
    \/ Usleep
    \/ Account

SpecSwitch == InitSwitch /\ [][NextSwitch]_vars


(***************************************************************************)
(* Properties                                                              *)
(***************************************************************************)
ActiveLeds == {i \in LedIds : Active(i)}

\* C1: the sleep_time computed after the dispatch loop is >= 0 and is the
\* smallest remaining delay (sleep) of the LEDs in use; it holds from the end
\* of the second for loop until the bookkeeping, while the delays are
\* unchanged.
C1_SleepTimeIsMin ==
    pc \in {"usleep", "account"} =>
        /\ sleep_time >= 0
        /\ \A i \in ActiveLeds : sleep_time <= leds[i].sleep
        /\ ActiveLeds # {} => \E i \in ActiveLeds : leds[i].sleep = sleep_time

\* a pass where two LEDs in use have different delays and the smaller one
\* was taken
C1_Witness ==
    /\ pc = "usleep"
    /\ \E i, j \in ActiveLeds : leds[i].sleep = sleep_time /\ leds[j].sleep > sleep_time

\* C2: the bookkeeping after the sleep lowers the remaining delay of every
\* LED in use by sleep_time, once, and leaves an unused slot as it was.
C2_ChargedOnce ==
    [][pc = "account" /\ pc' = "net" =>
        \A i \in LedIds :
            IF Active(i)
            THEN leds'[i] = [leds[i] EXCEPT !.sleep = leds[i].sleep - sleep_time]
            ELSE leds'[i] = leds[i]]_vars

\* after a bookkeeping: one LED is due, another still has time to wait, and
\* one slot is unused
C2_Witness ==
    /\ pc = "net"
    /\ sleep_time > 0
    /\ \E i, j \in ActiveLeds : leds[i].sleep = 0 /\ leds[j].sleep > 0
    /\ ActiveLeds # LedIds


(***************************************************************************)
(* Network LED: what an evaluation step sees, computed from the interface  *)
(* table and the list elements and not through check_if_list().            *)
(***************************************************************************)
\* the ifl indices of a list
Members(l) == {l[k] : k \in 1 .. Len(l)}

\* a role is up: its list is empty, or one member's status has every bit of check
ListUp(l, check) ==
    l = <<>> \/ \E e \in Members(l) : BitAnd(ifs[ifl[e].ifs].status, check) = check

\* the three roles of the LED the dispatch loop is at
PhysUp == ListUp(leds[led_num].intf, IF_CHECK_BOTH)
SlaveUp == ListUp(leds[led_num].slave, IF_CHECK_LOGICAL)
TunUp == ListUp(leds[led_num].tun, IF_CHECK_LOGICAL)

\* a member of one of its lists has a status other than the one last seen
StatusChanged ==
    \E e \in Members(leds[led_num].intf) \cup Members(leds[led_num].slave)
             \cup Members(leds[led_num].tun) :
        ifl[e].prev_status # ifs[ifl[e].ifs].status

\* the dispatch loop steps a network LED
NetStep ==
    /\ pc = "dispatch" /\ Due(led_num) /\ leds[led_num].type = LED_NET
    /\ led_num' = led_num + 1

\* the step is an evaluation step: case 1 (or 0) with count == 0
EvalStep == NetStep /\ leds[led_num].state \in {0, 1} /\ leds[led_num].count = 0

\* C3: at an evaluation step of a network LED, with each role up, down or
\* not configured (then up), limit and flash are: all three up -> MAXSTEPS
\* and 0; physical and slave up, tunnel down -> MAXSTEPS and 2; physical up,
\* slave down -> MAXSTEPS/2 and 0; physical down -> 0 and 0; and when a
\* status change is detected the limit is the same and flash is 1.
C3_LimitFlashTable ==
    [][EvalStep =>
        /\ PhysUp /\ SlaveUp /\ TunUp => leds'[led_num].limit = MAXSTEPS
        /\ PhysUp /\ SlaveUp /\ ~TunUp => leds'[led_num].limit = MAXSTEPS
        /\ PhysUp /\ ~SlaveUp => leds'[led_num].limit = MAXSTEPS \div 2
        /\ ~PhysUp => leds'[led_num].limit = 0
        /\ StatusChanged => leds'[led_num].flash = 1
        /\ ~StatusChanged /\ PhysUp /\ SlaveUp /\ ~TunUp => leds'[led_num].flash = 2
        /\ ~StatusChanged /\ ~(PhysUp /\ SlaveUp /\ ~TunUp) => leds'[led_num].flash = 0]_vars

\* a LED with the three roles configured has started the double flash
C3_Witness ==
    \E i \in LedIds :
        /\ leds[i].type = LED_NET
        /\ leds[i].intf # <<>> /\ leds[i].slave # <<>> /\ leds[i].tun # <<>>
        /\ leds[i].state = 2 /\ leds[i].flash = 2 /\ leds[i].limit = MAXSTEPS
        /\ out[i] = ON

\* "scenario A": the only interface is a physical one, the only member of the
\* lists of network LED i
ScenarioA(i) ==
    /\ leds[i].type = LED_NET
    /\ Len(ifs) = 1 /\ ifs[1].check = IF_CHECK_BOTH
    /\ Len(ifl) = 1
    /\ leds[i].intf = <<1>> /\ leds[i].slave = <<>> /\ leds[i].tun = <<>>

\* C4 as stated: in scenario A, with the interface present and its link up
\* at every poll, every evaluation step leaves flash == 0 and limit ==
\* MAXSTEPS and the LED is never switched off.
C4_AlwaysSteady ==
    \A i \in LedIds :
        ScenarioA(i) /\ healthy /\ leds[i].state # 0 =>
            leds[i].flash = 0 /\ leds[i].limit = MAXSTEPS /\ out[i] # OFF

\* C4: in scenario A, with the interface present and its link up at every
\* poll, the first evaluation step (state 0) sees a status change: flash ==
\* 1, limit == MAXSTEPS, the LED lit for 425 ms, then switched off for 75 ms
\* by the step of state 4; every later evaluation step leaves flash == 0 and
\* limit == MAXSTEPS, and every later step of the LED leaves it lit.
C4_SteadyAfterFirstFlash ==
    [][NetStep /\ ScenarioA(led_num) /\ healthy =>
        CASE leds[led_num].state = 0 ->
               /\ leds'[led_num].flash = 1 /\ leds'[led_num].limit = MAXSTEPS
               /\ leds'[led_num].state = 4 /\ writes' = <<ON>>
               /\ leds'[led_num].sleep = (SLEEP_500M * 85) \div 100
          [] leds[led_num].state = 4 ->
               /\ leds'[led_num].state = 1 /\ writes' = <<OFF>>
               /\ leds'[led_num].sleep = (SLEEP_500M * 15) \div 100
          [] leds[led_num].state = 1 /\ leds[led_num].count = 0 ->
               /\ leds'[led_num].flash = 0 /\ leds'[led_num].limit = MAXSTEPS
               /\ leds'[led_num].state = 1 /\ writes' = <<ON>>
          [] leds[led_num].state = 1 /\ leds[led_num].count # 0 ->
               /\ leds'[led_num].limit = MAXSTEPS
               /\ leds'[led_num].state = 1 /\ writes' = <<ON>>
          [] OTHER -> FALSE]_vars

\* a later evaluation step has acted: flash is back to 0, the LED is lit
C4_Witness ==
    \E i \in LedIds :
        /\ ScenarioA(i) /\ healthy
        /\ leds[i].state = 1 /\ leds[i].count = 1
        /\ leds[i].flash = 0 /\ leds[i].limit = MAXSTEPS /\ out[i] = ON

\* the list elements of the LED the dispatch loop is at
OwnMembers ==
    Members(leds[led_num].intf) \cup Members(leds[led_num].slave)
        \cup Members(leds[led_num].tun)

\* C5 as stated: the flash of a status change comes in addition to the
\* level-based pattern, so an evaluation step that finds physical and slave
\* up and the tunnel down starts the double flash of that pattern whether or
\* not a change is detected.
C5_FlashBesidesPattern ==
    [][EvalStep /\ PhysUp /\ SlaveUp /\ ~TunUp => leds'[led_num].state = 2]_vars

\* C5: an evaluation step that finds a member interface with a status other
\* than the one last seen starts exactly one short flash (lit 425 ms, then
\* the step of state 4 switches off for 75 ms and goes back to state 1 in
\* the second step of the cycle) and records the statuses seen, so the same
\* transition is not flashed again; the flash takes the place of the double
\* flash of the level-based pattern, the limit staying level-based; an
\* evaluation step that finds no such difference starts no single flash,
\* and no other step starts one.
C5_OneFlashPerChange ==
    [][NetStep =>
        /\ EvalStep /\ StatusChanged =>
             /\ leds'[led_num].flash = 1 /\ leds'[led_num].state = 4
             /\ leds'[led_num].sleep = (SLEEP_500M * 85) \div 100
             /\ writes' = <<ON>>
             /\ \A e \in OwnMembers : ifl'[e].prev_status = ifs[ifl[e].ifs].status
        /\ EvalStep /\ ~StatusChanged =>
             /\ leds'[led_num].flash # 1 /\ leds'[led_num].state # 4
             /\ ifl' = ifl
        /\ ~EvalStep =>
             /\ leds'[led_num].flash = leds[led_num].flash /\ ifl' = ifl
             /\ leds'[led_num].state = 4 => leds[led_num].state = 3
        /\ leds[led_num].state = 4 =>
             /\ writes' = <<OFF>> /\ leds'[led_num].state = 1
             /\ leds'[led_num].count = 1
             /\ leds'[led_num].sleep = (SLEEP_500M * 15) \div 100]_vars

\* a change was seen while physical and slave are up and the tunnel is down:
\* the single flash has started, the level-based limit is kept
C5_Witness ==
    /\ pc \in {"dispatch", "min"}
    /\ \E i \in LedIds :
        /\ leds[i].type = LED_NET
        /\ leds[i].state = 4 /\ leds[i].flash = 1 /\ leds[i].limit = MAXSTEPS
        /\ out[i] = ON
        /\ leds[i].tun # <<>>
        /\ \A e \in Members(leds[i].tun) :
               BitAnd(ifs[ifl[e].ifs].status, IF_CHECK_LOGICAL) = 0
        /\ \A e \in Members(leds[i].tun) : ifl[e].prev_status = ifs[ifl[e].ifs].status

\* C6 as stated: an evaluation step that finds the physical role down leaves
\* the LED off, whatever the other roles report.
C6_PhysDownOff ==
    [][EvalStep /\ ~PhysUp => writes' = <<OFF>> /\ leds'[led_num].state = 1]_vars

\* C6: an evaluation step that finds the physical role down sets limit to 0
\* whatever the slave and tunnel roles report; if it detects no status
\* change the LED is switched off, and the second step of the cycle leaves
\* it off; if it detects a status change the LED is lit for 425 ms, then
\* switched off by the step of state 4, and the second step of the cycle
\* leaves it off.
C6_PhysDownOffUnlessChanged ==
    [][NetStep =>
        /\ EvalStep /\ ~PhysUp => leds'[led_num].limit = 0
        /\ EvalStep /\ ~PhysUp /\ ~StatusChanged =>
             /\ writes' = <<OFF>> /\ leds'[led_num].state = 1
             /\ leds'[led_num].sleep = SLEEP_500M
        /\ EvalStep /\ ~PhysUp /\ StatusChanged =>
             /\ writes' = <<ON>> /\ leds'[led_num].state = 4
             /\ leds'[led_num].sleep = (SLEEP_500M * 85) \div 100
        /\ leds[led_num].state = 4 /\ leds[led_num].limit = 0 =>
             writes' = <<OFF>> /\ leds'[led_num].state = 1
        /\ leds[led_num].state = 1 /\ leds[led_num].count # 0
           /\ leds[led_num].limit = 0 =>
             writes' = <<OFF>> /\ leds'[led_num].state = 1]_vars

\* the physical role was found down with no change while the slave and the
\* tunnel are up: the LED is off
C6_Witness ==
    /\ pc \in {"dispatch", "min"}
    /\ \E i \in LedIds :
        /\ leds[i].type = LED_NET
        /\ leds[i].intf # <<>> /\ leds[i].slave # <<>> /\ leds[i].tun # <<>>
        /\ \A e \in Members(leds[i].intf) :
               BitAnd(ifs[ifl[e].ifs].status, IF_CHECK_BOTH) # IF_CHECK_BOTH
        /\ \E e \in Members(leds[i].slave) :
               BitAnd(ifs[ifl[e].ifs].status, IF_CHECK_LOGICAL) # 0
        /\ \E e \in Members(leds[i].tun) :
               BitAnd(ifs[ifl[e].ifs].status, IF_CHECK_LOGICAL) # 0
        /\ leds[i].state = 1 /\ leds[i].count = 1 /\ leds[i].flash = 0
        /\ leds[i].limit = 0 /\ out[i] = OFF /\ writes = <<OFF>>


(***************************************************************************)
(* CPU LED                                                                 *)
(***************************************************************************)
CpuLeds == {i \in LedIds : leds[i].type = LED_CPU}

\* the dispatch loop steps a CPU LED
CpuStep ==
    /\ pc = "dispatch" /\ Due(led_num) /\ leds[led_num].type = LED_CPU
    /\ led_num' = led_num + 1 \/ pc' = "crashed"

\* the deltas between the two samples a struct cpu_status holds
TotalDelta(c) == USub(c.cpu_total[2], c.cpu_total[1])
IdleDelta(c) == USub(c.cpu_idle[2], c.cpu_idle[1])

\* C7: cpu_usage is within 0 .. 100 in every reachable state, whatever the
\* samples: idle delta above the total delta, counters that wrap around 32
\* bits or go backwards, failed reads.
C7_UsageInRange ==
    \A i \in CpuLeds : leds[i].cpu.cpu_usage \in 0 .. 100

\* the two samples held straddle the wrap of the 32-bit total, and the idle
\* delta is above the total delta
C7_Witness ==
    \E i \in CpuLeds :
        /\ leds[i].state # 0
        /\ WLt(leds[i].cpu.cpu_total[2], leds[i].cpu.cpu_total[1])
        /\ leds[i].cpu.cpu_total[1] # U32Zero
        /\ TotalDelta(leds[i].cpu) # U32Zero
        /\ WLt(TotalDelta(leds[i].cpu), IdleDelta(leds[i].cpu))
        /\ leds[i].cpu.cpu_usage = 0

\* C8 as stated: when the two samples held are identical, the usage the
\* resample computed is 0.
C8_IdenticalGivesZero ==
    \A i \in CpuLeds :
        /\ leds[i].cpu.cpu_total[1] = leds[i].cpu.cpu_total[2]
        /\ leds[i].cpu.cpu_idle[1] = leds[i].cpu.cpu_idle[2]
        => leds[i].cpu.cpu_usage = 0

\* C8: when a resample reads the same total and the same idle time as the
\* sample before, cpu_usage keeps the value it had (0 only if it was 0).
C8_IdenticalKeepsUsage ==
    [][/\ CpuStep
       /\ leds'[led_num].cpu.cpu_total[1] = leds'[led_num].cpu.cpu_total[2]
       /\ leds'[led_num].cpu.cpu_idle[1] = leds'[led_num].cpu.cpu_idle[2]
       => leds'[led_num].cpu.cpu_usage = leds[led_num].cpu.cpu_usage]_vars

\* two identical samples are held and the usage is not 0
C8_Witness ==
    \E i \in CpuLeds :
        /\ leds[i].cpu.cpu_total[1] = leds[i].cpu.cpu_total[2]
        /\ leds[i].cpu.cpu_idle[1] = leds[i].cpu.cpu_idle[2]
        /\ leds[i].cpu.cpu_total[2] # U32Zero
        /\ leds[i].cpu.cpu_usage = 50

\* C9: when the total of the sample just read equals the total of the
\* sample before, the resample executes no division (the process is not
\* killed by a division by 0) and cpu_usage keeps its value.
C9_ZeroDeltaNoDivision ==
    [][/\ CpuStep
       /\ leds'[led_num].cpu.cpu_total[1] = leds'[led_num].cpu.cpu_total[2]
       => /\ pc' # "crashed"
          /\ leds'[led_num].cpu.cpu_usage = leds[led_num].cpu.cpu_usage]_vars

\* same total, another idle time, a usage that was computed before
C9_Witness ==
    /\ pc # "crashed"
    /\ \E i \in CpuLeds :
        /\ leds[i].cpu.cpu_total[1] = leds[i].cpu.cpu_total[2]
        /\ leds[i].cpu.cpu_total[2] # U32Zero
        /\ leds[i].cpu.cpu_idle[1] # leds[i].cpu.cpu_idle[2]
        /\ leds[i].cpu.cpu_usage = 90

\* the four counters of a struct cpu_status are below 2^16
SmallCounters(c) ==
    /\ c.cpu_total[1][1] = 0 /\ c.cpu_total[2][1] = 0
    /\ c.cpu_idle[1][1] = 0 /\ c.cpu_idle[2][1] = 0

\* floor(100 * (dTotal - dIdle) / dTotal) on the integers, for counters below
\* 2^16 with dTotal > 0; 0 when dIdle is above dTotal
FloorUsage(c) ==
    IF c.cpu_idle[2][2] - c.cpu_idle[1][2] > c.cpu_total[2][2] - c.cpu_total[1][2]
    THEN 0
    ELSE (100 * ((c.cpu_total[2][2] - c.cpu_total[1][2])
                 - (c.cpu_idle[2][2] - c.cpu_idle[1][2])))
         \div (c.cpu_total[2][2] - c.cpu_total[1][2])

\* a resample of a LED that held a sample already has stored a new sample,
\* both counters below 2^16 and neither going backwards, the total moving
GrowingResample ==
    /\ CpuStep
    /\ leds[led_num].state # 0
    /\ leds'[led_num].cpu # leds[led_num].cpu
    /\ SmallCounters(leds'[led_num].cpu)
    /\ leds'[led_num].cpu.cpu_total[2][2] > leds'[led_num].cpu.cpu_total[1][2]
    /\ leds'[led_num].cpu.cpu_idle[2][2] >= leds'[led_num].cpu.cpu_idle[1][2]

\* C10 as stated: once two samples have been taken the usage comes from the
\* delta of the two most recent samples alone, as
\* floor(100 * (dTotal - dIdle) / dTotal), whatever the absolute values.
C10_DeltaOnly ==
    [][GrowingResample =>
        leds'[led_num].cpu.cpu_usage = FloorUsage(leds'[led_num].cpu)]_vars

\* C10: a resample whose older sample has a total other than 0 computes the
\* usage from the two deltas as floor(100 * (dTotal - dIdle) / dTotal) (0
\* when dIdle is above dTotal); when the older total is 0 the usage keeps
\* its value; the product (dTotal - dIdle) * 100 is taken modulo 2^32
\* (samples (100,100), (60000100,100) give 28).  Samples (100,100),
\* (200,150), (300,160) give 50 after the second and 90 after the third,
\* and the third resample, coming from a usage of 50, sets limit to
\* usage / 50 = 1, the short schedule, not usage / 10.
C10_UsageFromDelta ==
    [][CpuStep /\ leds'[led_num].cpu # leds[led_num].cpu =>
        /\ GrowingResample /\ leds'[led_num].cpu.cpu_total[1] # U32Zero =>
             leds'[led_num].cpu.cpu_usage = FloorUsage(leds'[led_num].cpu)
        /\ leds'[led_num].cpu.cpu_total[1] = U32Zero =>
             leds'[led_num].cpu.cpu_usage = leds[led_num].cpu.cpu_usage
        /\ /\ leds'[led_num].cpu.cpu_total = <<U32(100), U32(60000100)>>
           /\ leds'[led_num].cpu.cpu_idle = <<U32(100), U32(100)>>
           => leds'[led_num].cpu.cpu_usage = 28
        /\ /\ leds'[led_num].cpu.cpu_total = <<U32(100), U32(200)>>
           /\ leds'[led_num].cpu.cpu_idle = <<U32(100), U32(150)>>
           => leds'[led_num].cpu.cpu_usage = 50
        /\ /\ leds'[led_num].cpu.cpu_total = <<U32(200), U32(300)>>
           /\ leds'[led_num].cpu.cpu_idle = <<U32(150), U32(160)>>
           => /\ leds'[led_num].cpu.cpu_usage = 90
              /\ leds[led_num].cpu.cpu_usage = 50 =>
                   leds'[led_num].limit = 1 /\ leds'[led_num].count = 0]_vars

\* the third sample of the scenario has been taken
C10_Witness ==
    \E i \in CpuLeds :
        /\ leds[i].cpu.cpu_total = <<U32(200), U32(300)>>
        /\ leds[i].cpu.cpu_idle = <<U32(150), U32(160)>>
        /\ leds[i].cpu.cpu_usage = 90
        /\ leds[i].limit = 1 /\ leds[i].count = 0


(***************************************************************************)
(* Disk LED                                                                *)
(***************************************************************************)
\* the dispatch loop steps a disk LED
DiskStep ==
    /\ pc = "dispatch" /\ Due(led_num) /\ leds[led_num].type = LED_DISK
    /\ led_num' = led_num + 1

\* the delta between the two samples a struct ide_status holds
DiskDelta(ide) == USub(ide.count[2], ide.count[1])

RunStep ==
    /\ pc = "dispatch" /\ Due(led_num) /\ leds[led_num].type = LED_RUNNING
    /\ led_num' = led_num + 1

C13_OnlySelector ==
    [][/\ fast_mode' # fast_mode =>
            /\ leds' = leds /\ ifs' = ifs /\ ifl' = ifl
            /\ net_sleep' = net_sleep /\ sleep_time' = sleep_time
            /\ led_num' = led_num /\ pc' = pc /\ out' = out
       /\ pc' # pc \/ led_num' # led_num \/ leds' # leds => fast_mode' = fast_mode
       /\ \A f \in {0, 1} :
            sig_handler("SIGUSR1", f) = 0 /\ sig_handler("SIGUSR2", f) = 1
       /\ fast_mode' \in {0, 1}]_vars

\* a run started without -R (it has a disk LED) in which a signal that
\* interrupted the sleep has set fast_mode
C13_Witness ==
    /\ fast_mode = 1 /\ pc = "usleep" /\ naps # <<>>
    /\ \E i \in LedIds : leds[i].type = LED_DISK
    /\ \E i \in LedIds : leds[i].type = LED_RUNNING /\ leds[i].state # 0


(***************************************************************************)
(* The sleep of the scheduler loop                                         *)
(***************************************************************************)
RECURSIVE SumSeq(_)
SumSeq(s) == IF s = <<>> THEN 0 ELSE Head(s) + SumSeq(Tail(s))

\* time spent in the while loop around usleep() once the last call has
\* returned 0: the interrupted calls and the complete one
TimeSlept == SumSeq(naps) + sleep_time

\* the bookkeeping step
AccountStep == pc = "account" /\ pc' = "net"

\* C14 as stated: the time subtracted from each LED in use is the time that
\* was actually slept, interrupted calls included.
C14_ChargedIsSlept ==
    [][AccountStep =>
        \A i \in ActiveLeds : leds[i].sleep - leds'[i].sleep = TimeSlept]_vars

\* C14: when a signal makes usleep() return early, main() stays in the
\* sleep and calls usleep() again with the same, full sleep_time, charging
\* nothing; the bookkeeping then subtracts sleep_time, the length of the
\* last call alone, from every LED in use and from net_sleep, all by the
\* same amount; the time slept in the interrupted calls is charged to
\* nobody, so the time slept exceeds the time charged by exactly that much.
C14_RestartedInFull ==
    [][/\ pc = "usleep" /\ naps' # naps =>
            /\ pc' = "usleep" /\ sleep_time' = sleep_time
            /\ leds' = leds /\ net_sleep' = net_sleep
            /\ Len(naps') = Len(naps) + 1
       /\ pc = "usleep" /\ pc' # "usleep" => pc' = "account" /\ naps' = naps
       /\ AccountStep =>
            /\ \A i \in ActiveLeds : leds[i].sleep - leds'[i].sleep = sleep_time
            /\ nbifs # 0 => net_sleep - net_sleep' = sleep_time
            /\ TimeSlept - sleep_time = SumSeq(naps)
            /\ naps # <<>> => TimeSlept > sleep_time]_vars

\* the sleep has returned after two interruptions, with two LEDs in use
C14_Witness ==
    /\ pc = "account"
    /\ Len(naps) = 2
    /\ \E i, j \in ActiveLeds : i # j


(***************************************************************************)
(* Switch mode                                                             *)
(***************************************************************************)
\* C15: in switch mode main() never reaches the scheduler loop; when the
\* switch is not pressed at the first test nothing is written and the exit
\* status is 1; each iteration of the loop writes one level to all the
\* selected LEDs and to no other, lit in the first iteration and the
\* opposite of the previous iteration afterwards, then sleeps 150 ms; when
\* the loop ends every selected LED is written its default level (LED 1
\* lit, LEDs 2 and 3 off) and the exit status is 0.
C15_SwitchMode ==
    [][sw.switch_mode = 1 =>
        /\ pc' \in {"start", "sw_loop", "sw_sleep", "exited"}
        /\ pc = "start" /\ pc' = "exited" =>
             /\ sw'.status = 1 /\ sw'.w = <<>>
             /\ \A i \in LedIds : out'[i] = "none"
        /\ pc' = "sw_sleep" =>
             /\ pc = "sw_loop"
             /\ sw'.sleep = 150000
             /\ \E level \in {ON, OFF} :
                  /\ \A i \in LedIds :
                       out'[i] = IF Bit(sw.led_mask, i) = 1 THEN level ELSE out[i]
                  /\ sw.n = 0 => level = ON
                  /\ sw.n > 0 => \A i \in LedIds : Bit(sw.led_mask, i) = 1 => out[i] # level
        /\ pc = "sw_loop" /\ pc' = "exited" =>
             /\ sw'.status = 0
             /\ Bit(sw.led_mask, 0) = 1 => out'[0] = ON
             /\ Bit(sw.led_mask, 1) = 1 => out'[1] = OFF
             /\ Bit(sw.led_mask, 2) = 1 => out'[2] = OFF]_vars

\* alix-leds -l 1 -l 3 -S has blinked at least twice and returned 0
C15_Witness ==
    /\ pc = "exited"
    /\ sw.prog = "alix-leds" /\ sw.led_mask = 5
    /\ sw.n >= 2 /\ sw.status = 0
    /\ out[0] = ON /\ out[1] = "none" /\ out[2] = OFF


(***************************************************************************)
(* Failed reads                                                            *)
(***************************************************************************)
\* every interface of the table has status IF_CHECK_NONE
AllNone(tbl) == \A k \in 1 .. Len(tbl) : tbl[k].status = IF_CHECK_NONE

DispatchIteration == pc = "dispatch" /\ (pc' # pc \/ led_num' # led_num)

\* C17: a pass visits slots 0, 1, 2 once each, in this order; the LED of
\* the slot visited is stepped (and leaves with a delay above 0) exactly
\* when its type is not LED_UNUSED and its delay is <= 0; otherwise it is
\* left as it is and nothing is written; no iteration touches another slot,
\* and outside the dispatch loop only the delays change.
C17_DueSteppedInOrder ==
    [][/\ pc = "net" /\ pc' # pc => pc' = "dispatch" /\ led_num' = 0 /\ leds' = leds
       /\ DispatchIteration =>
            /\ led_num \in LedIds
            /\ led_num' = led_num + 1
            /\ pc' = IF led_num = 2 THEN "min" ELSE "dispatch"
            /\ \A j \in LedIds \ {led_num} : leds'[j] = leds[j] /\ out'[j] = out[j]
            /\ IF leds[led_num].type # LED_UNUSED /\ leds[led_num].sleep <= 0
               THEN leds'[led_num].sleep > 0
               ELSE leds'[led_num] = leds[led_num] /\ writes' = <<>> /\ out' = out
       /\ pc \in {"min", "usleep", "account"} =>
            \A i \in LedIds : leds'[i] = [leds[i] EXCEPT !.sleep = leds'[i].sleep]]_vars

\* the pass has stepped the running LED of slot 0, passed the free slot 1 and
\* left alone the disk LED of slot 2, which is not due
C17_Witness ==
    /\ pc = "min"
    /\ leds[0].type = LED_RUNNING /\ leds[0].state = 1 /\ leds[0].sleep = 600000
    /\ leds[1].type = LED_UNUSED /\ leds[1] = led0
    /\ leds[2].type = LED_DISK /\ leds[2].sleep > 0
    /\ leds[2].sleep \notin {250000, 100000, 25000}


\* main() calls the manage_* function of the LED in slot led_num
StepCall ==
    /\ pc = "dispatch" /\ Due(led_num)
    /\ led_num' = led_num + 1 \/ pc' = "crashed"

\* C18: a call of manage_net(), manage_running(), manage_cpu() or
\* manage_disk() passes at most one level to setled() and leaves the LED
\* with a delay that is not negative.
C18_OneWriteDelayNotNegative ==
    [][StepCall => Len(writes') <= 1 /\ leds'[led_num].sleep >= 0]_vars

\* manage_cpu() has just lit the LED of slot 1 for a duration computed from a
\* usage below 100
C18_Witness ==
    /\ pc = "dispatch" /\ led_num = 2 /\ writes = <<ON>>
    /\ leds[1].type = LED_CPU /\ leds[1].state = 2
    /\ leds[1].cpu.cpu_usage < 100
    /\ leds[1].sleep = 40000 + 4600 * (100 - leds[1].cpu.cpu_usage)


(***************************************************************************)
(* The status of a role                                                     *)
(***************************************************************************)
\* what check_if_list() gives for one list of the LED the dispatch loop is at
RoleRet(l, check, flag) == check_if_list(ifs, ifl, l, check, flag)

\* check_if_list() reports flag exactly when the role is up; for no list at
\* all it returns flag alone and touches no element
RoleAgrees(l, check, flag) ==
    /\ BitAnd(RoleRet(l, check, flag).ret, flag) = flag <=> ListUp(l, check)
    /\ l = <<>> => RoleRet(l, check, flag).ret = flag /\ RoleRet(l, check, flag).ifl = ifl

\* C19: at an evaluation step each of the three check_if_list() reports its
\* role up exactly when the list is empty or the status of at least one
\* member has every bit the role checks; an empty list gives the flag alone,
\* without LINK_CHANGED; the limit chosen follows: not 0 exactly when the
\* physical role is up, MAXSTEPS exactly when the slave role is up too; and
\* when no member of a list changed the LED does not start the single flash.
C19_RoleUpIsOrOfMembers ==
    [][EvalStep =>
         /\ RoleAgrees(leds[led_num].intf, IF_CHECK_BOTH, ETH_UP)
         /\ RoleAgrees(leds[led_num].slave, IF_CHECK_LOGICAL, SLAVE_UP)
         /\ RoleAgrees(leds[led_num].tun, IF_CHECK_LOGICAL, TUN_UP)
         /\ leds'[led_num].limit # 0 <=> PhysUp
         /\ leds'[led_num].limit = MAXSTEPS <=> PhysUp /\ SlaveUp
         /\ ~StatusChanged => leds'[led_num].flash # 1]_vars

\* a physical role of two interfaces, one up and one absent, no slave and no
\* tunnel: the evaluation step just made has chosen the steady light
C19_Witness ==
    /\ pc = "dispatch" /\ led_num = 1
    /\ leds[0].type = LED_NET /\ Len(leds[0].intf) = 2
    /\ leds[0].slave = <<>> /\ leds[0].tun = <<>>
    /\ \E e \in Members(leds[0].intf) : ifs[ifl[e].ifs].status = IF_CHECK_NONE
    /\ \E e \in Members(leds[0].intf) :
           BitAnd(ifs[ifl[e].ifs].status, IF_CHECK_BOTH) = IF_CHECK_BOTH
    /\ leds[0].state = 1 /\ leds[0].count = 1 /\ leds[0].flash = 0
    /\ leds[0].limit = MAXSTEPS /\ writes = <<ON>>


(***************************************************************************)
(* The polling interval                                                     *)
(***************************************************************************)
\* the pass starts with check_if_status()
Refresh == pc = "net" /\ pc' = "dispatch" /\ rdok' # "none"

\* C20: check_if_status() is only called with an interface configured and,
\* after the first call, only once at least SLEEP_500M of sleep have been
\* accounted since the call before; the table changes at no other step.
C20_RefreshEveryHalfSecond ==
    [][/\ Refresh => nbifs # 0 /\ (since = -1 \/ since >= SLEEP_500M) /\ since' = 0
       /\ ~Refresh => ifs' = ifs
       /\ nbifs = 0 => ~Refresh /\ since' = -1]_vars

\* a pass has just refreshed the table again: a network LED is already past
\* its first step
C20_Witness ==
    /\ pc = "dispatch" /\ led_num = 0 /\ rdok \in {"ok", "fail"} /\ since = 0
    /\ \E i \in LedIds : leds[i].type = LED_NET /\ leds[i].state # 0 /\ leds[i].sleep <= 0
    /\ \E i, j \in LedIds : i # j /\ leds[i].type = LED_NET /\ leds[j].type = LED_NET


(***************************************************************************)
(* The start of the CPU LED                                                *)
(***************************************************************************)
\* C21 as stated: the first two calls of manage_cpu() for a LED write
\* nothing and leave it out of the on/off states.
C21_TwoSilentCalls ==
    [][CpuStep /\ calls[led_num] < 2 =>
         writes' = <<>> /\ leds'[led_num].state \in {0, 1}]_vars

\* C21: the first call of manage_cpu() for a LED, and every call made in
\* state 0, writes nothing and only samples: the LED moves to state 1 when
\* the read succeeded and stays in state 0 otherwise.  Every call made out
\* of state 0 writes a level and alternates between states 1 and 2; so the
\* second call, when the first read succeeded, already lights the LED.
C21_SilentUntilFirstSample ==
    [][CpuStep /\ pc' # "crashed" =>
         /\ calls[led_num] = 0 => leds[led_num].state = 0
         /\ leds[led_num].state = 0 =>
              /\ writes' = <<>> /\ out' = out
              /\ leds'[led_num].state = IF rdok' = "ok" THEN 1 ELSE 0
              /\ leds'[led_num].sleep = SLEEP_1SEC \div 2
         /\ leds[led_num].state # 0 =>
              /\ leds[led_num].state \in {1, 2}
              /\ leds'[led_num].state = 3 - leds[led_num].state
              /\ writes' = IF leds[led_num].state = 1 THEN <<ON>> ELSE <<OFF>>
         /\ calls[led_num] = 1 /\ leds[led_num].state = 1 => writes' = <<ON>>]_vars

\* the second call of manage_cpu() for the LED of slot 0 has lit it
C21_Witness ==
    /\ pc = "dispatch" /\ led_num = 1
    /\ leds[0].type = LED_CPU /\ calls[0] = 2
    /\ leds[0].state = 2 /\ writes = <<ON>> /\ out[0] = ON


(***************************************************************************)
(* The resample of the CPU LED                                             *)
(***************************************************************************)
\* a call of manage_cpu() out of state 0 that does not end in SIGFPE
CpuShowStep == CpuStep /\ leds[led_num].state # 0 /\ pc' # "crashed"

\* the call resamples: "if (led->count >= led->limit)" after "led->count++"
ResampleStep == CpuShowStep /\ leds[led_num].count + 1 >= leds[led_num].limit

\* by how much the resample moved cpu_usage
UsageMove ==
    IF leds'[led_num].cpu.cpu_usage >= leds[led_num].cpu.cpu_usage
    THEN leds'[led_num].cpu.cpu_usage - leds[led_num].cpu.cpu_usage
    ELSE leds[led_num].cpu.cpu_usage - leds'[led_num].cpu.cpu_usage

\* the number of calls of manage_cpu() from a resample that left limit, to
\* the next resample
StepsToNext(limit) == IF limit < 1 THEN 1 ELSE limit

\* C22 as stated: after a move of 10 points or more the next resample comes
\* ten times sooner than after a smaller move to the same usage.
C22_TenTimesSooner ==
    [][ResampleStep /\ UsageMove >= 10 =>
         10 * StepsToNext(leds'[led_num].limit)
             = StepsToNext(leds'[led_num].cpu.cpu_usage \div 10)]_vars

\* C22: a resample leaves limit = cpu_usage / 10 when cpu_usage moved by
\* less than 10 points and limit = cpu_usage / 50 when it moved by 10 points
\* or more, and count = 0; a call resamples exactly when count + 1 reaches
\* limit and otherwise only counts.  So the next resample comes after
\* cpu_usage / 10 calls (at least one), more calls at high load than at low
\* load, or after cpu_usage / 50 calls (at least one), which is never as few
\* as a tenth of the former.
C22_ResampleAfterLimitSteps ==
    [][/\ ResampleStep =>
            /\ leds'[led_num].count = 0
            /\ leds'[led_num].limit =
                 IF UsageMove < 10 THEN leds'[led_num].cpu.cpu_usage \div 10
                 ELSE leds'[led_num].cpu.cpu_usage \div 50
            /\ rdok' # "none"
            /\ UsageMove >= 10 /\ leds'[led_num].cpu.cpu_usage >= 20 =>
                 /\ StepsToNext(leds'[led_num].limit)
                      < StepsToNext(leds'[led_num].cpu.cpu_usage \div 10)
                 /\ 10 * StepsToNext(leds'[led_num].limit)
                      > StepsToNext(leds'[led_num].cpu.cpu_usage \div 10)
       /\ CpuShowStep /\ ~ResampleStep =>
            /\ leds'[led_num].count = leds[led_num].count + 1
            /\ leds'[led_num].limit = leds[led_num].limit
            /\ leds'[led_num].cpu = leds[led_num].cpu
            /\ rdok' = "none"]_vars

\* a resample has just found the usage at 100 after a move of 10 points or
\* more: the next one is two calls away, not one
C22_Witness ==
    /\ pc = "dispatch" /\ led_num = 1 /\ rdok = "ok"
    /\ leds[0].type = LED_CPU /\ leds[0].state \in {1, 2} /\ writes # <<>>
    /\ leds[0].cpu.cpu_usage = 100 /\ leds[0].limit = 2 /\ leds[0].count = 0


(***************************************************************************)
(* The durations of the CPU LED                                            *)
(***************************************************************************)
\* C23 as stated: the lit phase gets shorter as the load falls, so below
\* 100% it is not longer than the 40 ms of 100%.
C23_OnTimeFallsWithLoad ==
    [][CpuShowStep /\ leds[led_num].state = 1 /\ leds'[led_num].cpu.cpu_usage < 100 =>
         leds'[led_num].sleep <= 40000]_vars

\* C23: out of state 0 manage_cpu() alternates: from state 1 it lights the
\* LED and goes to state 2, from state 2 it puts it out and goes to state 1.
\* The duration only depends on cpu_usage as the call leaves it: lit for
\* 40 ms plus 4.6 ms per point below 100, out for 60 ms plus 4.4 ms per point
\* below 100; that is 500 ms and 500 ms at 0, 40 ms and 60 ms at 100, and
\* both longer the lower the usage.
C23_DurationsFromUsage ==
    [][CpuShowStep =>
         /\ leds[led_num].state \in {1, 2}
         /\ leds'[led_num].state = 3 - leds[led_num].state
         /\ writes' = IF leds[led_num].state = 1 THEN <<ON>> ELSE <<OFF>>
         /\ leds'[led_num].sleep =
              IF leds[led_num].state = 1
              THEN 40000 + 4600 * (100 - leds'[led_num].cpu.cpu_usage)
              ELSE 60000 + 4400 * (100 - leds'[led_num].cpu.cpu_usage)
         /\ leds'[led_num].cpu.cpu_usage = 0 => leds'[led_num].sleep = 500000
         /\ leds'[led_num].cpu.cpu_usage = 100 =>
              leds'[led_num].sleep = IF leds[led_num].state = 1 THEN 40000 ELSE 60000
         /\ leds'[led_num].cpu.cpu_usage < 100 =>
              leds'[led_num].sleep > IF leds[led_num].state = 1 THEN 40000 ELSE 60000]_vars

\* the LED has just been lit at a usage of 50: for 270 ms
C23_Witness ==
    /\ pc = "dispatch" /\ led_num = 1
    /\ leds[0].type = LED_CPU /\ leds[0].state = 2 /\ writes = <<ON>>
    /\ leds[0].cpu.cpu_usage = 50 /\ leds[0].sleep = 270000


(***************************************************************************)
(* The samples of the disk LED                                             *)
(***************************************************************************)
\* C24 as stated: the steps that end the lit phase (state 2) and the 25 ms
\* off phase (state 3) of a pulse do not read the counter.
C24_NoSampleInPulse ==
    [][DiskStep /\ leds[led_num].state \in {2, 3} =>
         rdok' = "none" /\ leds'[led_num].ide = leds[led_num].ide]_vars

\* C24: manage_disk() calls update_disk() once in every call made in state
\* 0, 1 or 2 and never in state 3: once at the end of each idle period, once
\* more at the step that ends the lit phase of a pulse, and not at the step
\* that ends its 25 ms off phase, which decides from the delta of the lit
\* phase.  A read that succeeds shifts the ring and stores the delta.
C24_SampleAtIdleAndPulseOn ==
    [][DiskStep =>
         /\ rdok' # "none" <=> leds[led_num].state \in {0, 1, 2}
         /\ leds[led_num].state = 3 => leds'[led_num].ide = leds[led_num].ide
         /\ rdok' = "fail" => leds'[led_num].ide = leds[led_num].ide
         /\ rdok' = "ok" =>
              /\ leds'[led_num].ide.count[1] = leds[led_num].ide.count[2]
              /\ leds'[led_num].ide.disk_usage = DiskDelta(leds'[led_num].ide)]_vars

\* the step that ends the lit phase has read the counter and found it moved
C24_Witness ==
    /\ pc = "min" /\ led_num = 3 /\ rdok = "ok"
    /\ leds[2].type = LED_DISK /\ leds[2].state = 3 /\ writes = <<OFF>>
    /\ leds[2].sleep = 25000
    /\ leds[2].ide.count[1] # leds[2].ide.count[2]
    /\ leds[2].ide.count[1] # U32Zero


(***************************************************************************)
(* The start of the disk LED                                               *)
(***************************************************************************)
\* both slots of the ring hold a sample (a read that succeeds never gives 0
\* in these runs, and the ring starts as zeroes)
TwoSamples(ide) == ide.count[1] # U32Zero /\ ide.count[2] # U32Zero

\* state 0 of manage_disk(): the LED is put out, the counter is read once,
\* the next step is 250 ms away, and state 0 is left when the read succeeded
DiskBootStep ==
    DiskStep /\ leds[led_num].state = 0 =>
        /\ writes' = <<OFF>> /\ leds'[led_num].sleep = 250000
        /\ rdok' # "none"
        /\ leds'[led_num].state = IF rdok' = "ok" THEN 1 ELSE 0

\* C25 as stated: state 0 does as DiskBootStep says, and a pulse is only
\* started from a delta between two samples, never from the delta of the
\* first sample against the zero the ring starts with.
C25_FirstPulseFromTwoSamples ==
    [][/\ DiskBootStep
       /\ DiskStep /\ leds'[led_num].state = 2 => TwoSamples(leds'[led_num].ide)]_vars


(***************************************************************************)
(* The cycle of a network LED                                              *)
(***************************************************************************)
\* C26: the single flash is 425 ms lit and 75 ms out, the double flash
\* 225 ms lit, 75 ms out, 125 ms lit and 75 ms out, any other step of case 1
\* 500 ms; the step that ends a flash comes when 500 ms have been accounted
\* since the evaluation and sets count to 1; an evaluation other than the
\* first comes when exactly MAXSTEPS * 500 ms have been accounted since the
\* one before; count stays within 0 .. MAXSTEPS - 1.
C26_CycleIsMaxStepsHalfSeconds ==
    [][NetStep =>
         /\ EvalStep =>
              /\ age[led_num] \in {-1, MAXSTEPS * SLEEP_500M}
              /\ age'[led_num] = 0
              /\ leds'[led_num].flash = 1 =>
                   /\ leds'[led_num].state = 4 /\ leds'[led_num].sleep = 425000
                   /\ writes' = <<ON>> /\ leds'[led_num].count = 0
              /\ leds'[led_num].flash = 2 =>
                   /\ leds'[led_num].state = 2 /\ leds'[led_num].sleep = 225000
                   /\ writes' = <<ON>> /\ leds'[led_num].count = 0
              /\ leds'[led_num].flash = 0 =>
                   /\ leds'[led_num].state = 1 /\ leds'[led_num].sleep = SLEEP_500M
                   /\ leds'[led_num].count = 1 % MAXSTEPS
         /\ ~EvalStep =>
              /\ age[led_num] > 0 /\ age[led_num] < MAXSTEPS * SLEEP_500M
              /\ age'[led_num] = age[led_num]
         /\ leds[led_num].state = 2 =>
              /\ leds'[led_num].state = 3 /\ leds'[led_num].sleep = 75000
              /\ writes' = <<OFF>> /\ age[led_num] = 225000
         /\ leds[led_num].state = 3 =>
              /\ leds'[led_num].state = 4 /\ leds'[led_num].sleep = 125000
              /\ writes' = <<ON>> /\ age[led_num] = 300000
         /\ leds[led_num].state = 4 =>
              /\ leds'[led_num].state = 1 /\ leds'[led_num].sleep = 75000
              /\ writes' = <<OFF>> /\ age[led_num] = 425000
              /\ leds'[led_num].count = 1 % MAXSTEPS
         /\ leds[led_num].state = 1 /\ leds[led_num].count # 0 =>
              /\ leds'[led_num].state = 1 /\ leds'[led_num].sleep = SLEEP_500M
              /\ age[led_num] = leds[led_num].count * SLEEP_500M
              /\ leds'[led_num].count = (leds[led_num].count + 1) % MAXSTEPS
         /\ leds'[led_num].count \in 0 .. MAXSTEPS - 1]_vars

\* an evaluation is due MAXSTEPS * 500 ms after the one that started a
\* double flash
C26_Witness ==
    /\ pc = "dispatch" /\ led_num \in LedIds /\ Due(led_num)
    /\ Evaluates(leds[led_num]) /\ leds[led_num].flash = 2
    /\ age[led_num] = MAXSTEPS * SLEEP_500M


(***************************************************************************)
(* The poll and the network LEDs                                           *)
(***************************************************************************)
\* C27: net_sleep is never below 0, and a call of manage_net() in state 0 or
\* 1 is made in a pass that began with check_if_status(): nothing has been
\* accounted since the refresh and net_sleep is still SLEEP_500M.
C27_PollInLockstep ==
    [][/\ net_sleep' >= 0
       /\ NetStep /\ leds[led_num].state \in {0, 1} =>
            since = 0 /\ net_sleep = SLEEP_500M /\ sleep_time = SLEEP_500M]_vars

\* the network LED of slot 0 has just made a step of case 1 in a pass that
\* refreshed the table, next to a running LED that is in the middle of a
\* phase
C27_Witness ==
    /\ pc = "dispatch" /\ led_num = 1 /\ since = 0
    /\ leds[0].type = LED_NET /\ leds[0].state = 1 /\ calls[0] >= 2
    /\ leds[0].sleep = SLEEP_500M /\ writes # <<>>
    /\ leds[1].type = LED_RUNNING /\ leds[1].sleep > 0


(***************************************************************************)
(* Progress of the scheduler loop                                          *)
(***************************************************************************)
\* one step of main() in the scheduler loop; Usleep is usleep() returning 0
PassStep ==
    \/ NetPoll(SchedReports)
    \/ DispatchSkip
    \/ DispatchNet
    \/ DispatchRunning
    \/ DispatchCpu(SchedCpuReads)
    \/ DispatchDisk(SchedDiskReads)
    \/ MinSleep
    \/ Usleep
    \/ Account

\* Command lines of the progress runs: the four types, a slot without a
\* type, a slot that is not named, three LEDs in use
LiveCmdLines ==
    { CmdLine(<<<<"r">>>>, <<>>, <<<<"d">>>>),
      CmdLine(<<<<"u">>>>, "none", "none"),
      CmdLine(<<<<"i", "eth0">>>>, <<<<"R">>>>, <<<<"s", "eth0">>>>) }

InitLive == \E args \in LiveCmdLines : InitArgs(args)

\* main() keeps running and every sleep ends up complete, whatever signals
\* come in between
SpecLive == InitLive /\ [][Next]_vars /\ WF_vars(PassStep)

\* main() calls the manage_*() function of leds[i]
StepOf(i) == pc = "dispatch" /\ led_num = i /\ Due(i) /\ led_num' = i + 1

\* C28: a LED that the command line gave a type other than LED_UNUSED (the
\* type never changes afterwards) is stepped again and again, without end.
C28_NoStarvation ==
    \A i \in LedIds : leds[i].type # LED_UNUSED => []<><<StepOf(i)>>_vars

\* three LEDs are in use and each has been stepped three times or more, with
\* fast_mode set by a signal
C28_Witness ==
    /\ \A i \in LedIds : leds[i].type # LED_UNUSED /\ calls[i] >= 3
    /\ leds[0].type = LED_NET /\ leds[1].type = LED_RUNNING
    /\ pc = "usleep" /\ naps # <<>>
====
